---- MODULE Spec2Model ----
(***************************************************************************)
(* Model of the turkic-api job pipeline: JobService.create_job,            *)
(* process_corpus / process_corpus_impl (api/jobs.py), ensure_corpus_file  *)
(* (core/corpus_download.py), build_lang_script_filter (core/langid.py)    *)
(* and LocalCorpusService.stream (core/corpus.py).                         *)
(*                                                                         *)
(* Python strings whose characters the code inspects (strip, upper, lower, *)
(* replace) are sequences of one-character strings.  Untyped parameter     *)
(* values are tagged records: [t |-> "str", s |-> chars], [t |-> "int",    *)
(* n |-> i], [t |-> "bool", b |-> x], [t |-> "float", f |-> hundredths],   *)
(* [t |-> "none"], and [t |-> "missing"] for a key absent from the dict.   *)
(* One action is one I/O operation of the code followed by the pure code   *)
(* up to the next I/O operation.  Timestamps are abstracted to "now".      *)
(***************************************************************************)
EXTENDS Integers, Sequences, FiniteSets, TLC

VARIABLES
    redis,      \* job:{id} hashes: job id -> [field -> value], <<>> when no key
    queue,      \* RQ queue: sequence of [func, job_id, params]
    pc,         \* position of the run of process_corpus for each job id
    params,     \* the params dict the run was called with
    spec,       \* ProcessSpec built by the run (NoSpec before validation)
    script,     \* normalized script filter of the run (None or chars)
    exc,        \* name of the exception that left process_corpus_impl, or "none"
    corpus,     \* {data_dir}/corpus/{source}_{language}.txt: key -> lines, or Absent
    model_file, \* {data_dir}/models/lid218e.bin present on disk
    model_len,  \* chunks of the model the file holds
    mfh,        \* chunks a run wrote through its handle on the model file,
                \* -1 when it has no handle
    stub,       \* the list a stubbed streamer yields from, <<>> when the
                \* streamers are the real ones
    fetched,    \* sentences the remote stream has yielded to the run so far
    wcount,     \* _write_lines: lines this run has written to the corpus file
    buf,        \* lines written to the run's open handle and not yet flushed
    inode,      \* the inode each canonical path names, "none" when it names none
    fh,         \* the inode of the run's handle from dest.open("w"), or "none"
    rbuf,       \* what the run's reader handle read from the corpus file
    ens,        \* history of the run's ensure_corpus_file call: was the filter
                \* built, what the raw stream yielded and whether it was kept
    lid_in,     \* a call of the language-id functions on their own: its inputs
    lid_out,    \* and what _parse_label and _keep returned for them
    http,       \* the last answer of GET /api/v1/jobs/{job_id}/result
    health_in,  \* a health check on its own: what the ping and the existence
                \* checks give
    health_out, \* and what the endpoint and compute_health answer
    oscar,      \* a call of stream_oscar on its own: the rows of the dataset,
                \* how many the loop has taken and what it has yielded
    results,    \* {data_dir}/results/{job_id}.txt: job id -> lines, or Absent
    read_pos,   \* lines of the corpus file the local reader has consumed
    count,      \* LocalCorpusService.stream: sentences yielded so far
    written,    \* process_corpus_impl: result lines written so far
    url_cfg,    \* settings.data_bank_api_url as read by the run
    key_cfg,    \* settings.data_bank_api_key as read by the run
    resp,       \* response of the upload POST, NoResp before it returned
    client,     \* Redis client of process_corpus: "none", "open", "closed"
    writes,     \* history: the mappings the run passed to redis.hset, in order
    calls       \* history: counts of ensure_corpus_file calls and of those that
                \* raised, reads of the data-bank settings, httpx.post calls,
                \* queue.enqueue calls and client.close calls

vars == <<redis, queue, pc, params, spec, script, exc, corpus, model_file,
          model_len, mfh, stub, fetched, wcount, buf, inode, fh, ens, rbuf, results, read_pos, count,
          written, url_cfg, key_cfg, resp, client, writes, calls,
          lid_in, lid_out, http, health_in, health_out, oscar>>

\* the variables of the jobs, their runs and the files
job_vars == <<redis, queue, pc, params, spec, script, exc, corpus, model_file,
              model_len, mfh, stub, fetched, wcount, buf, inode, fh, ens, rbuf, results, read_pos,
              count, written, url_cfg, key_cfg, resp, client, writes, calls>>

\* the variables of the HTTP endpoints that read the state
api_vars == <<http, health_in, health_out>>

\* the variables of the language-id calls made on their own
langid_vars == <<lid_in, lid_out>>

\* the content of the model file and the handles of the runs downloading it
model_vars == <<model_len, mfh>>

\* the state of the open corpus handle of a run
handle_vars == <<buf, fh>>

-----------------------------------------------------------------------------
(* Bounds of the model *)

\* longest remote stream, in sentences
MaxStream == 3
\* lines of the long cached corpus file (reaches two progress checkpoints)
LongLen == 100
\* chunks r.iter_content yields for the whole classifier model
ModelChunks == 2
\* most rows of a dataset stream_oscar iterates
MaxRows == 3

JobIds == {"j1"}
\* the job ids of two runs that overlap in time
AllJobIds == {"j1", "j2"}

-----------------------------------------------------------------------------
(* Python strings as character sequences *)

None == [t |-> "none"]
Missing == [t |-> "missing"]
PyStr(s) == [t |-> "str", s |-> s]
PyInt(n) == [t |-> "int", n |-> n]
PyBool(b) == [t |-> "bool", b |-> b]
PyFloat(f) == [t |-> "float", f |-> f]

IsSpace(c) == c \in {" ", "\n", "\r", "\t"}

RECURSIVE LStrip(_)
LStrip(s) == IF s # <<>> /\ IsSpace(Head(s)) THEN LStrip(Tail(s)) ELSE s

RECURSIVE RStrip(_)
RStrip(s) ==
    IF s # <<>> /\ IsSpace(s[Len(s)]) THEN RStrip(SubSeq(s, 1, Len(s) - 1)) ELSE s

\* str.strip()
Strip(s) == RStrip(LStrip(s))

UpperOf == [c \in {"a", "c", "e", "g", "k", "l", "n", "r", "t", "y"} |->
              CASE c = "a" -> "A" [] c = "c" -> "C" [] c = "e" -> "E"
                [] c = "g" -> "G" [] c = "k" -> "K" [] c = "l" -> "L"
                [] c = "n" -> "N" [] c = "r" -> "R" [] c = "t" -> "T"
                [] c = "y" -> "Y"]

\* str.upper() and str.lower() on the characters the model uses
UpperChar(c) == IF c \in DOMAIN UpperOf THEN UpperOf[c] ELSE c
LowerChar(c) ==
    IF \E l \in DOMAIN UpperOf : UpperOf[l] = c
    THEN CHOOSE l \in DOMAIN UpperOf : UpperOf[l] = c
    ELSE c
Upper(s) == [i \in 1..Len(s) |-> UpperChar(s[i])]
Lower(s) == [i \in 1..Len(s) |-> LowerChar(s[i])]

\* mutant: the rest of the string is not lowercased
Capitalize_NoLower(s) == Upper(SubSeq(s, 1, 1)) \o SubSeq(s, 2, Len(s))

\* s[0:1].upper() + s[1:].lower()
Capitalize(s) == Upper(SubSeq(s, 1, 1)) \o Lower(SubSeq(s, 2, Len(s)))

OSCAR == <<"o", "s", "c", "a", "r">>
WIKIPEDIA == <<"w", "i", "k", "i", "p", "e", "d", "i", "a">>
KK == <<"k", "k">>
KY == <<"k", "y">>
UZ == <<"u", "z">>
TR == <<"t", "r">>
UG == <<"u", "g">>
LATN == <<"L", "a", "t", "n">>
CYRL == <<"C", "y", "r", "l">>
ARAB == <<"A", "r", "a", "b">>

\* core.models.is_source / is_language
is_source(value) == value \in {OSCAR, WIKIPEDIA}
is_language(value) == value \in {KK, KY, UZ, TR, UG}

-----------------------------------------------------------------------------
(* The job record store: redis.hset(name, mapping=...) merges the mapping *)

NoHash == <<>>

\* mutant: the mapping replaces the hash
HSet_Replace(h, mapping) == mapping

\* redis.hset(key, mapping=mapping): the named fields overlay the hash
HSet(h, mapping) ==
    [f \in (DOMAIN h) \cup (DOMAIN mapping) |->
        IF f \in DOMAIN mapping THEN mapping[f] ELSE h[f]]

Has(h, f) == f \in DOMAIN h

-----------------------------------------------------------------------------
(* Parameter validation of process_corpus_impl *)

NoExc == [type |-> "none", msg |-> ""]
Raise(type, msg) == [type |-> type, msg |-> msg]

NoSpec == [source |-> <<>>, language |-> <<>>, max_sentences |-> 0,
           transliterate |-> FALSE, confidence_threshold |-> 0]

\* params.get(key, default)
Get(p, key, default) == IF p[key].t = "missing" THEN default ELSE p[key]

\* isinstance(v, str), isinstance(v, int) (bool is a subclass of int),
\* isinstance(v, bool), isinstance(v, (int, float))
IsStr(v) == v.t = "str"
IsInt(v) == v.t \in {"int", "bool"}
IsBool(v) == v.t = "bool"
IsNumber(v) == v.t \in {"int", "bool", "float"}

\* the int value of an int or bool
IntOf(v) == IF v.t = "bool" THEN (IF v.b THEN 1 ELSE 0) ELSE v.n
\* float(thr_val), in hundredths
FloatOf(v) == IF v.t = "float" THEN v.f ELSE 100 * IntOf(v)

SupportedScripts == {LATN, CYRL, ARAB}

\* mutant: the normalized script is not checked against the supported scripts
NormalizeScript_AnyScript(script_val) ==
    IF script_val.t = "none" THEN [exc |-> NoExc, script |-> None]
    ELSE IF IsStr(script_val) THEN
        LET s == Strip(script_val.s) IN
        IF s = <<>> THEN [exc |-> NoExc, script |-> None]
        ELSE [exc |-> NoExc, script |-> PyStr(Capitalize(s))]
    ELSE [exc |-> Raise("TypeError", "script must be a string or null"),
          script |-> None]

\* lines 73-86, the script branch: [exc, script]
NormalizeScript(script_val) ==
    IF script_val.t = "none" THEN [exc |-> NoExc, script |-> None]
    ELSE IF IsStr(script_val) THEN
        LET s == Strip(script_val.s) IN
        IF s = <<>> THEN [exc |-> NoExc, script |-> None]
        ELSE LET norm == Capitalize(s) IN
             IF norm \notin SupportedScripts
             THEN [exc |-> Raise("ValueError", "Invalid script"), script |-> None]
             ELSE [exc |-> NoExc, script |-> PyStr(norm)]
    ELSE [exc |-> Raise("TypeError", "script must be a string or null"),
          script |-> None]

\* mutant: the enum membership of source/language is checked before the
\* script
Validate_EnumFirst(p) ==
    LET src_val == Get(p, "source", PyStr(<<>>))
        lang_val == Get(p, "language", PyStr(<<>>))
        max_val == Get(p, "max_sentences", PyInt(1000))
        translit_val == Get(p, "transliterate", PyBool(TRUE))
        thr_val == Get(p, "confidence_threshold", PyFloat(95))
        script_val == Get(p, "script", None)
        fail(e) == [exc |-> e, spec |-> NoSpec, script |-> None]
    IN  IF ~IsStr(src_val) \/ ~IsStr(lang_val)
        THEN fail(Raise("TypeError", "source and language must be strings"))
        ELSE IF ~IsInt(max_val)
        THEN fail(Raise("TypeError", "max_sentences must be int"))
        ELSE IF ~IsBool(translit_val)
        THEN fail(Raise("TypeError", "transliterate must be bool"))
        ELSE IF ~IsNumber(thr_val)
        THEN fail(Raise("TypeError", "confidence_threshold must be a number"))
        ELSE LET ns == NormalizeScript(script_val)
                 lang_raw == Strip(lang_val.s)
                 src_raw == Strip(src_val.s)
             IN  IF ~is_source(src_raw) \/ ~is_language(lang_raw)
                 THEN fail(Raise("ValueError", "Invalid source or language"))
                 ELSE IF ns.exc # NoExc THEN fail(ns.exc)
                 ELSE [exc |-> NoExc,
                       spec |-> [source |-> src_raw,
                                 language |-> lang_raw,
                                 max_sentences |-> IntOf(max_val),
                                 transliterate |-> translit_val.b,
                                 confidence_threshold |-> FloatOf(thr_val)],
                       script |-> ns.script]

\* lines 49-95: [exc, spec, script]; exc = NoExc when the ProcessSpec is built
Validate(p) ==
    LET src_val == Get(p, "source", PyStr(<<>>))
        lang_val == Get(p, "language", PyStr(<<>>))
        max_val == Get(p, "max_sentences", PyInt(1000))
        translit_val == Get(p, "transliterate", PyBool(TRUE))
        thr_val == Get(p, "confidence_threshold", PyFloat(95))
        script_val == Get(p, "script", None)
        fail(e) == [exc |-> e, spec |-> NoSpec, script |-> None]
    IN  IF ~IsStr(src_val) \/ ~IsStr(lang_val)
        THEN fail(Raise("TypeError", "source and language must be strings"))
        ELSE IF ~IsInt(max_val)
        THEN fail(Raise("TypeError", "max_sentences must be int"))
        ELSE IF ~IsBool(translit_val)
        THEN fail(Raise("TypeError", "transliterate must be bool"))
        ELSE IF ~IsNumber(thr_val)
        THEN fail(Raise("TypeError", "confidence_threshold must be a number"))
        ELSE LET ns == NormalizeScript(script_val)
                 lang_raw == Strip(lang_val.s)
                 src_raw == Strip(src_val.s)
             IN  IF ns.exc # NoExc THEN fail(ns.exc)
                 ELSE IF ~is_source(src_raw) \/ ~is_language(lang_raw)
                 THEN fail(Raise("ValueError", "Invalid source or language"))
                 ELSE [exc |-> NoExc,
                       spec |-> [source |-> src_raw,
                                 language |-> lang_raw,
                                 max_sentences |-> IntOf(max_val),
                                 transliterate |-> translit_val.b,
                                 confidence_threshold |-> FloatOf(thr_val)],
                       script |-> ns.script]

\* the parameter bags a run is called with
SourceVals == {PyStr(OSCAR), PyStr(<<" ">> \o WIKIPEDIA), PyStr(<<"x">>), PyInt(1)}
LanguageVals == {PyStr(KK), PyStr(<<"x", "x">>), PyInt(2)}
MaxVals == {PyInt(0), PyInt(2), Missing, PyStr(<<"x">>)}
TranslitVals == {PyBool(TRUE), PyBool(FALSE), PyStr(<<"y">>)}
ThresholdVals == {PyFloat(0), PyFloat(95), PyStr(<<"n", "o">>)}
ScriptVals == {None, PyStr(<<"l", "A", "T", "n">>), PyStr(<<" ", " ">>),
               PyStr(<<"G", "r", "e", "e", "k">>), PyInt(123)}

ParamSpace ==
    [source : SourceVals, language : LanguageVals, max_sentences : MaxVals,
     transliterate : TranslitVals, confidence_threshold : ThresholdVals,
     script : ScriptVals]

NoParams == [source |-> Missing, language |-> Missing, max_sentences |-> Missing,
             transliterate |-> Missing, confidence_threshold |-> Missing,
             script |-> Missing]

\* JobCreate.model_dump(mode="json"): the bags create_job enqueues
JobCreateSpace ==
    [source : {PyStr(OSCAR)}, language : {PyStr(KK)},
     max_sentences : {PyInt(2)},
     transliterate : {PyBool(TRUE), PyBool(FALSE)},
     confidence_threshold : {PyFloat(0), PyFloat(95)},
     script : {None, PyStr(LATN)}]

-----------------------------------------------------------------------------
(* Files *)

NoFile == [exists |-> FALSE, lines |-> <<>>]
File(lines) == [exists |-> TRUE, lines |-> lines]

Sources == {OSCAR, WIKIPEDIA}
Languages == {KK, KY, UZ, TR, UG}
CorpusKeys == Sources \X Languages

\* corpus_dir / f"{spec.source}_{spec.language}.txt"
CorpusPath(sp) == <<sp.source, sp.language>>

A == <<"a">>
A_NL_B == <<"a", "\n", "b">>

\* sentences a remote stream yields: trimmed and non-empty
Sentences == {A, A_NL_B}

LongFile == [i \in 1..LongLen |-> A]

\* the bytes of a file of lines: each line ends with a newline
RECURSIVE Flatten(_)
Flatten(lines) ==
    IF lines = <<>> THEN <<>>
    ELSE Head(lines) \o <<"\n">> \o Flatten(Tail(lines))

\* the lines a reader gets from the bytes of a file
RECURSIVE SplitLines(_)
SplitLines(chars) ==
    LET nl == {i \in 1..Len(chars) : chars[i] = "\n"}
    IN  IF chars = <<>> THEN <<>>
        ELSE IF nl = {} THEN <<chars>>
        ELSE LET k == CHOOSE i \in nl : \A m \in nl : i <= m
             IN  <<SubSeq(chars, 1, k - 1)>> \o
                 SplitLines(SubSeq(chars, k + 1, Len(chars)))

\* a handle opened with "w" writes its lines from offset 0 over the bytes the
\* file holds by then; bytes beyond what it writes stay
Overlay(lines, old) ==
    LET n == Flatten(lines)
        o == Flatten(old)
    IN  IF Len(n) >= Len(o) THEN lines
        ELSE SplitLines(n \o SubSeq(o, Len(n) + 1, Len(o)))

\* history of an ensure_corpus_file call before anything happened in it
NoEns == [filter |-> FALSE, streamed |-> <<>>]

B == <<"b">>

\* the lists a stubbed streamer yields from: any strings, the empty one too
StubStreams ==
    UNION {[1..n -> {A, B, <<>>}] : n \in 0..MaxStream}

\* corpus files earlier runs have left at a canonical path
CachedFiles == {File(<<A, A>>), File(<<>>), File(LongFile)}

-----------------------------------------------------------------------------
(* Job record writes of process_corpus_impl and create_job *)

QueuedWrite(job) ==
    [status |-> "queued", source |-> job.source.s, language |-> job.language.s,
     created_at |-> "now"]

InitialWrite ==
    [status |-> "processing", updated_at |-> "now", progress |-> 0,
     message |-> "started"]

\* mutant: the failure is recorded without setting the status
FailedWrite_NoStatus(message, error) ==
    [updated_at |-> "now", message |-> message, error |-> error]

\* lines 102-109, 141-148 and the other upload failures
FailedWrite(message, error) ==
    [status |-> "failed", updated_at |-> "now", message |-> message,
     error |-> error]

Min(a, b) == IF a <= b THEN a ELSE b

\* mutant: the checkpoint progress is not clamped
CheckpointWrite_NoClamp(n) ==
    [progress |-> n, updated_at |-> "now", message |-> "processing"]

\* lines 125-132
CheckpointWrite(n) ==
    [progress |-> Min(99, n), updated_at |-> "now", message |-> "processing"]

\* mutant: a checkpoint every 25th line
IsCheckpoint_Every25(n) == n % 25 = 0

\* line 124: if written % 50 == 0
IsCheckpoint(n) == n % 50 = 0

\* mutant: the file id is stored without the upload status
FileIdWrite_NoStatus(fid) == [file_id |-> fid]

\* lines 219-225
FileIdWrite(fid) == [file_id |-> fid, upload_status |-> "uploaded"]

CompletedWrite ==
    [status |-> "completed", updated_at |-> "now", progress |-> 100,
     message |-> "done"]

\* redis.hset(f"job:{job_id}", mapping=mapping)
HSetJob(j, mapping) ==
    /\ redis' = [redis EXCEPT ![j] = HSet(@, mapping)]
    /\ writes' = [writes EXCEPT ![j] = Append(@, mapping)]

NoCalls == [ensure |-> 0, ensure_raised |-> 0, config |-> 0, post |-> 0,
            enqueue |-> 0, close |-> 0, download |-> 0, persist |-> 0]

-----------------------------------------------------------------------------
(* Language/script filter: core/langid.py *)

LABEL_PREFIX == <<"_", "_", "l", "a", "b", "e", "l", "_", "_">>

\* str.replace(pat, rep), pat non-empty
RECURSIVE Replace(_, _, _)
Replace(s, pat, rep) ==
    IF Len(s) < Len(pat) THEN s
    ELSE IF SubSeq(s, 1, Len(pat)) = pat
         THEN rep \o Replace(SubSeq(s, Len(pat) + 1, Len(s)), pat, rep)
         ELSE <<Head(s)>> \o Replace(Tail(s), pat, rep)

LangMap(lang_part) ==
    CASE lang_part = <<"k", "a", "z">> -> KK
      [] lang_part = <<"k", "i", "r">> -> KY
      [] lang_part = <<"t", "u", "r">> -> TR
      [] lang_part = <<"u", "z", "n">> -> UZ
      [] lang_part = <<"u", "z", "s">> -> UZ
      [] lang_part = <<"u", "i", "g">> -> UG
      [] OTHER -> lang_part

\* mutant: the label is split at its last underscore
parse_label_LastUnderscore(raw) ==
    LET label == Replace(raw, LABEL_PREFIX, <<>>)
        us == {i \in 1..Len(label) : label[i] = "_"}
    IN  IF us # {}
        THEN LET k == CHOOSE i \in us : \A m \in us : i >= m
             IN  [lang |-> LangMap(SubSeq(label, 1, k - 1)),
                  script |-> PyStr(SubSeq(label, k + 1, Len(label)))]
        ELSE [lang |-> LangMap(label), script |-> None]

\* _parse_label(raw): [lang, script]
parse_label(raw) ==
    LET label == Replace(raw, LABEL_PREFIX, <<>>)
        us == {i \in 1..Len(label) : label[i] = "_"}
    IN  IF us # {}
        THEN LET k == CHOOSE i \in us : \A m \in us : i <= m
             IN  [lang |-> LangMap(SubSeq(label, 1, k - 1)),
                  script |-> PyStr(SubSeq(label, k + 1, Len(label)))]
        ELSE [lang |-> LangMap(label), script |-> None]

\* script normalization of build_lang_script_filter
FilterScriptNorm(scr) ==
    IF scr.t = "none" THEN None
    ELSE LET t == Strip(scr.s)
         IN  IF t = <<>> THEN None ELSE PyStr(Capitalize(t))

\* mutant: the probability must exceed the threshold
Keep_Strict(pred, target_lang, scr, threshold) ==
    LET label == IF pred.labels # <<>> THEN pred.labels[1] ELSE <<>>
        prob == IF pred.probs # <<>> THEN pred.probs[1] ELSE 0
        parsed == parse_label(label)
        script_norm == FilterScriptNorm(scr)
    IN  IF parsed.lang # target_lang THEN FALSE
        ELSE IF script_norm.t # "none" /\ parsed.script # script_norm THEN FALSE
        ELSE prob > threshold

\* _keep(text) for the classifier output pred = [labels, probs]
Keep(pred, target_lang, scr, threshold) ==
    LET label == IF pred.labels # <<>> THEN pred.labels[1] ELSE <<>>
        prob == IF pred.probs # <<>> THEN pred.probs[1] ELSE 0
        parsed == parse_label(label)
        script_norm == FilterScriptNorm(scr)
    IN  IF parsed.lang # target_lang THEN FALSE
        ELSE IF script_norm.t # "none" /\ parsed.script # script_norm THEN FALSE
        ELSE prob >= threshold

\* outputs of model.predict(text, k=1), probabilities in hundredths
Predictions ==
    {[labels |-> <<>>, probs |-> <<>>]} \cup
    [labels : {<<LABEL_PREFIX \o <<"k", "a", "z", "_", "C", "y", "r", "l">> >>,
               <<LABEL_PREFIX \o <<"k", "a", "z", "_", "L", "a", "t", "n">> >>,
               <<LABEL_PREFIX \o <<"t", "u", "r", "_", "L", "a", "t", "n">> >>,
               <<LABEL_PREFIX \o <<"k", "k">> >>},
     probs : {<<50>>, <<99>>}]

\* mutant: a script filter alone does not turn the filter on
NeedsFilter_ThresholdOnly(sp, scr) == sp.confidence_threshold > 0

\* ensure_corpus_file line 110: is the stream filtered
NeedsFilter(sp, scr) == sp.confidence_threshold > 0 \/ scr.t # "none"

\* _write_lines line 80
WriteLine(s) == Strip(Replace(Replace(s, <<"\n">>, <<" ">>), <<"\r">>, <<" ">>))

\* the exception a remote stream raises at its n-th read (n counted from 0)
StreamError(source, n) ==
    IF source = OSCAR
    THEN (IF n = 0 THEN "RuntimeError" ELSE "ConnectionError")
    ELSE (IF n = 0 THEN "HTTPError" ELSE "ParseError")

\* the language codes of the labels tried: the keys of the table of
\* _parse_label, two codes outside it and the empty code
LabelCodes ==
    {<<"k", "a", "z">>, <<"k", "i", "r">>, <<"t", "u", "r">>, <<"u", "z", "n">>,
     <<"u", "z", "s">>, <<"u", "i", "g">>, KK, KY, TR, UZ, UG,
     <<"e", "n", "g">>, <<"x", "x">>, <<>>}

\* what follows the first underscore of a label: <<>> when the label has none
LabelSuffixes == {<<>>, <<CYRL>>, <<LATN>>, << <<>> >>, <<CYRL \o <<"_", "x">> >>}

\* the fastText label made of a prefix, a code and a suffix
LabelOf(in) ==
    (IF in.prefix THEN LABEL_PREFIX ELSE <<>>) \o in.code \o
    (IF in.suffix = <<>> THEN <<>> ELSE <<"_">> \o in.suffix[1])

\* model.predict(text, k=1) for an input: (labels, probs), both possibly empty
PredictionOf(in) ==
    [labels |-> IF in.nolabel THEN <<>> ELSE <<LabelOf(in)>>,
     probs |-> in.probs]

\* inputs of a call of the filter: the label the model gives, its probability
\* in hundredths, and the target language, script and threshold of the filter
LidInputs ==
    [prefix : BOOLEAN, code : LabelCodes, suffix : LabelSuffixes,
     nolabel : BOOLEAN, probs : {<<>>, <<50>>, <<99>>},
     target : {KK, UZ},
     script : {None, PyStr(<<"l", "a", "t", "n">>), PyStr(<<" ", "C", "Y", "R", "L">>),
               PyStr(<<" ">>)},
     threshold : {0, 50, 95}]

NoLidIn == [prefix |-> FALSE, code |-> <<>>, suffix |-> <<>>, nolabel |-> TRUE,
            probs |-> <<>>, target |-> <<>>, script |-> None, threshold |-> 0]

\* nothing returned yet: parsed and kept hold at most one value each
NoLidOut == [parsed |-> <<>>, kept |-> <<>>]

-----------------------------------------------------------------------------
(* Upload responses *)

NoResp == [status_code |-> 0, text |-> [kind |-> "none"]]

\* resp.text: malformed JSON, a JSON array, or a JSON object with its file_id
JsonDict(file_id) == [kind |-> "dict", file_id |-> file_id]
Bodies ==
    {[kind |-> "invalid"], [kind |-> "list"]} \cup
    {JsonDict(v) : v \in {Missing, None, PyInt(7), PyStr(<<>>), PyStr(<<" ">>),
                          PyStr(<<" ", "f", "1">>)}}

StatusCodes == {199, 200, 299, 300, 500}

\* mutants: the range check without its upper, or without its lower, bound
IsSuccessStatus_NoUpper(code) == 200 <= code
IsSuccessStatus_NoLower(code) == code < 300

\* line 171
IsSuccessStatus(code) == 200 <= code /\ code < 300

Responses ==
    [status_code : {200}, text : Bodies] \cup
    [status_code : StatusCodes \ {200}, text : {JsonDict(PyStr(<<"f", "1">>))}]

\* f"status_{resp.status_code}"
StatusError(code) == "status_" \o ToString(code)

\* json.loads(resp.text): [exc, obj]
JsonLoads(text) ==
    IF text.kind = "invalid"
    THEN [exc |-> Raise("JSONDecodeError", "Expecting value"), obj |-> text]
    ELSE [exc |-> NoExc, obj |-> text]

\* isinstance(obj, dict)
IsDict(obj) == obj.kind = "dict"

\* lines 201-202: v = obj.get("file_id"); is v a non-blank string
ValidFileId(obj) ==
    LET v == IF obj.file_id.t = "missing" THEN None ELSE obj.file_id
    IN  IsStr(v) /\ Strip(v.s) # <<>>

\* mutant: the settings are not trimmed
ConfigMissing_NoStrip(url, key) == url = <<>> \/ key = <<>>

\* line 138
ConfigMissing(url, key) == Strip(url) = <<>> \/ Strip(key) = <<>>

Urls == {<<>>, <<" ">>, <<"h">>}
Keys == {<<>>, <<"k">>}

\* the black-box transliteration to_ipa(line, lang)
Ipa(line) == <<"[">> \o line \o <<"]">>

-----------------------------------------------------------------------------
(* Answers of the HTTP endpoints *)

\* what a request for a result has read: was there a record, its status,
\* and did the result file exist (FALSE when the handler did not look)
NoSeen == [record |-> FALSE, status |-> "none", file |-> FALSE]

\* no request for the result of a job was answered yet
NoHttp == [code |-> 0, detail |-> "", body |-> <<>>, seen |-> NoSeen]

\* raise HTTPException(status_code=code, detail=detail)
HttpError(code, detail, seen) ==
    [code |-> code, detail |-> detail, body |-> <<>>, seen |-> seen]

\* FileResponse(path=...): 200 with the lines of the file
FileResponse(lines, seen) ==
    [code |-> 200, detail |-> "", body |-> lines, seen |-> seen]

\* what redis.ping() gives: a value, or an exception
PingResults ==
    {[kind |-> "value", truthy |-> TRUE], [kind |-> "value", truthy |-> FALSE]}
    \cup [kind : {"raises"},
          type : {"RedisError", "ConnectionError", "TimeoutError", "OSError"}]

\* isinstance(exc, redis_exceptions.RedisError)
IsRedisError(type) == type \in {"RedisError", "ConnectionError", "TimeoutError"}

\* inputs of a health check: the ping, whether /data exists, and whether
\* settings.data_dir exists
HealthInputs ==
    [ping : PingResults, data : BOOLEAN, data_dir : BOOLEAN]

NoHealthIn == [ping |-> [kind |-> "none"], data |-> FALSE, data_dir |-> FALSE]

\* nothing answered yet: endpoint, computed and handled hold at most one
\* answer each
NoHealthOut == [endpoint |-> <<>>, computed |-> <<>>, handled |-> <<>>]

\* mutant: a volume without Redis counts as unhealthy
DeriveStatus_RedisDecides(redis_ok, volume_ok) ==
    IF redis_ok /\ volume_ok THEN "healthy"
    ELSE IF redis_ok THEN "degraded"
    ELSE "unhealthy"

\* main.py lines 44-49, health.py lines 39-44
DeriveStatus(redis_ok, volume_ok) ==
    IF redis_ok /\ volume_ok THEN "healthy"
    ELSE IF redis_ok \/ volume_ok THEN "degraded"
    ELSE "unhealthy"

\* HealthResponse(status=..., redis=..., volume=...) answered with 200
HealthResponse(status, redis_ok, volume_ok) ==
    [code |-> 200, kind |-> "HealthResponse", status |-> status,
     redis |-> redis_ok, volume |-> volume_ok]

\* an exception no handler of the app takes: the server answers 500
ServerError(type) ==
    [code |-> 500, kind |-> type, status |-> "none", redis |-> FALSE,
     volume |-> FALSE]

\* raise HealthStatusError(status=..., redis=..., volume=...)
HealthStatusError(status, redis_ok, volume_ok) ==
    [code |-> 0, kind |-> "HealthStatusError", status |-> status,
     redis |-> redis_ok, volume |-> volume_ok]

\* an exception that leaves the function called
Raised(type) ==
    [code |-> 0, kind |-> type, status |-> "none", redis |-> FALSE,
     volume |-> FALSE]

-----------------------------------------------------------------------------
(* Initial state: no job exists; the corpus cache is empty or holds one file *)
(* left by an earlier run                                                   *)

\* a row of the dataset: a dict with its value under "text" (Missing when it
\* has no such key), or an object that is no dict
Row(text) == [kind |-> "dict", text |-> text]
NonDictRow == [kind |-> "int"]

Rows ==
    {Row(PyStr(<<"x">>)), Row(PyStr(<<" ", "y", " ">>)), Row(PyStr(<<>>)),
     Row(PyStr(<<" ">>)), Row(PyInt(99)), Row(Missing), NonDictRow}

\* what load_dataset(...) iterates over
Datasets == UNION {[1..n -> Rows] : n \in 0..MaxRows}

\* a call of stream_oscar before its first row
OscarCall(rows) == [rows |-> rows, pos |-> 0, out |-> <<>>]
\* no call of stream_oscar is made on its own
NoOscar == [rows |-> <<>>, pos |-> -1, out |-> <<>>]

\* mutant: the text is yielded as it is, untrimmed
OscarYield_NoStrip(row) ==
    IF row.kind = "dict"
    THEN LET text_obj == IF row.text.t = "missing" THEN None ELSE row.text
         IN  IF IsStr(text_obj)
             THEN LET s == Strip(text_obj.s)
                  IN  IF s # <<>> THEN <<text_obj.s>> ELSE <<>>
             ELSE <<>>
    ELSE <<>>

\* stream_oscar lines 45-50, the body of the loop for one row: what it yields
OscarYield(row) ==
    IF row.kind = "dict"
    THEN LET text_obj == IF row.text.t = "missing" THEN None ELSE row.text
         IN  IF IsStr(text_obj)
             THEN LET s == Strip(text_obj.s)
                  IN  IF s # <<>> THEN <<s>> ELSE <<>>
             ELSE <<>>
    ELSE <<>>

InitJobs ==
    /\ redis = [j \in AllJobIds |-> NoHash]
    /\ queue = <<>>
    /\ pc = [j \in AllJobIds |-> "new"]
    /\ params = [j \in AllJobIds |-> NoParams]
    /\ spec = [j \in AllJobIds |-> NoSpec]
    /\ script = [j \in AllJobIds |-> None]
    /\ exc = [j \in AllJobIds |-> NoExc]
    /\ \E f \in {NoFile} \cup CachedFiles :
          corpus = [k \in CorpusKeys |-> IF k = <<OSCAR, KK>> THEN f ELSE NoFile]
    /\ model_file \in BOOLEAN
    /\ model_len = (IF model_file THEN ModelChunks ELSE 0)
    /\ mfh = [j \in AllJobIds |-> -1]
    /\ stub \in {<<>>} \cup StubStreams
    /\ fetched = [j \in AllJobIds |-> 0]
    /\ wcount = [j \in AllJobIds |-> 0]
    /\ buf = [j \in AllJobIds |-> <<>>]
    /\ inode = [k \in CorpusKeys |-> IF corpus[k].exists THEN "old" ELSE "none"]
    /\ fh = [j \in AllJobIds |-> "none"]
    /\ ens = [j \in AllJobIds |-> NoEns]
    /\ rbuf = [j \in AllJobIds |-> <<>>]
    /\ results = [j \in AllJobIds |-> NoFile]
    /\ read_pos = [j \in AllJobIds |-> 0]
    /\ count = [j \in AllJobIds |-> 0]
    /\ written = [j \in AllJobIds |-> 0]
    /\ url_cfg = [j \in AllJobIds |-> <<>>]
    /\ key_cfg = [j \in AllJobIds |-> <<>>]
    /\ resp = [j \in AllJobIds |-> NoResp]
    /\ client = [j \in AllJobIds |-> "none"]
    /\ writes = [j \in AllJobIds |-> <<>>]
    /\ calls = [j \in AllJobIds |-> NoCalls]
    /\ http = [j \in AllJobIds |-> NoHttp]
    /\ health_in \in {NoHealthIn} \cup HealthInputs
    /\ health_out = NoHealthOut
    /\ oscar \in {NoOscar} \cup {OscarCall(rows) : rows \in Datasets}

Init ==
    /\ InitJobs
    /\ ~model_file
    /\ stub = <<>>
    /\ health_in = NoHealthIn
    /\ oscar = NoOscar
    /\ lid_in = NoLidIn /\ lid_out = NoLidOut

-----------------------------------------------------------------------------
(* JobService.create_job and the entry points of a run *)

\* create_job lines 40-48: persist the job metadata snapshot
PersistQueued(j, job) ==
    /\ redis' = [redis EXCEPT ![j] = HSet(@, QueuedWrite(job))]
    /\ calls' = [calls EXCEPT ![j].persist = @ + 1]
    /\ UNCHANGED queue

\* create_job lines 51-53: enqueue the background job
Enqueue(j, job) ==
    /\ queue' = Append(queue, [func |-> "api.jobs.process_corpus",
                               job_id |-> j, params |-> job])
    /\ calls' = [calls EXCEPT ![j].enqueue = @ + 1]
    /\ UNCHANGED redis

\* mutant: the job is enqueued first and its record persisted afterwards
create_job_EnqueueFirst(j, job, step) ==
    /\ IF step = 1
       THEN /\ pc[j] = "new"
            /\ calls[j].persist = 0 /\ calls[j].enqueue = 0
            /\ Enqueue(j, job)
            /\ params' = [params EXCEPT ![j] = job]
            /\ pc' = [pc EXCEPT ![j] = "created"]
       ELSE /\ calls[j].persist + calls[j].enqueue = 1
            /\ job = params[j]
            /\ PersistQueued(j, job)
            /\ pc' = [pc EXCEPT ![j] = IF @ = "created" THEN "queued" ELSE @]
            /\ UNCHANGED params
    /\ UNCHANGED <<spec, script, exc, corpus, model_file, model_vars, stub,
                   langid_vars, api_vars, oscar, fetched, wcount, handle_vars, inode,
                   ens, rbuf, results, read_pos, count, written, url_cfg,
                   key_cfg, resp, client, writes>>

\* JobService.create_job for the fresh id j: its first step persists the
\* queued record, its second step enqueues the job and returns
create_job(j, job, step) ==
    /\ IF step = 1
       THEN /\ pc[j] = "new"
            /\ calls[j].persist = 0 /\ calls[j].enqueue = 0
            /\ PersistQueued(j, job)
            /\ params' = [params EXCEPT ![j] = job]
            /\ pc' = [pc EXCEPT ![j] = "created"]
       ELSE /\ calls[j].persist + calls[j].enqueue = 1
            /\ job = params[j]
            /\ Enqueue(j, job)
            /\ pc' = [pc EXCEPT ![j] = IF @ = "created" THEN "queued" ELSE @]
            /\ UNCHANGED params
    /\ UNCHANGED <<spec, script, exc, corpus, model_file, model_vars, stub,
                   langid_vars, api_vars, oscar, fetched, wcount, handle_vars, inode,
                   ens, rbuf, results, read_pos, count, written, url_cfg,
                   key_cfg, resp, client, writes>>

\* process_corpus_impl lines 37-95: the initial write and the validation
Begin(j, p) ==
    LET v == Validate(p)
    IN  /\ HSetJob(j, InitialWrite)
        /\ params' = [params EXCEPT ![j] = p]
        /\ IF v.exc # NoExc
           THEN /\ pc' = [pc EXCEPT ![j] = "raised"]
                /\ exc' = [exc EXCEPT ![j] = v.exc]
                /\ UNCHANGED <<spec, script>>
           ELSE /\ pc' = [pc EXCEPT ![j] = "ensure"]
                /\ spec' = [spec EXCEPT ![j] = v.spec]
                /\ script' = [script EXCEPT ![j] = v.script]
                /\ UNCHANGED exc

\* process_corpus: the worker takes the job from the queue and opens its client
process_corpus(j) ==
    /\ queue # <<>>
    /\ Head(queue).job_id = j
    /\ pc[j] \in {"created", "queued"}
    /\ queue' = Tail(queue)
    /\ client' = [client EXCEPT ![j] = "open"]
    /\ Begin(j, Head(queue).params)
    /\ UNCHANGED <<corpus, model_file, model_vars, stub, langid_vars, api_vars, oscar, fetched, wcount, handle_vars, inode, ens, rbuf, results, read_pos,
                   count, written, url_cfg, key_cfg, resp, calls>>

\* process_corpus_impl called with injected dependencies
process_corpus_impl(j, p) ==
    /\ pc[j] = "new"
    /\ Begin(j, p)
    /\ UNCHANGED <<queue, corpus, model_file, model_vars, stub, langid_vars, api_vars, oscar, fetched, wcount, handle_vars, inode, ens, rbuf, results,
                   read_pos, count, written, url_cfg, key_cfg, resp, client,
                   calls>>

\* mutant: the client is closed only when process_corpus_impl returned
Finally_OnlyOnReturn(j) ==
    /\ pc[j] = "returned"
    /\ client[j] = "open"
    /\ client' = [client EXCEPT ![j] = "closed"]
    /\ calls' = [calls EXCEPT ![j].close = @ + 1]
    /\ UNCHANGED <<redis, queue, pc, params, spec, script, exc, corpus,
                   model_file, model_vars, stub, langid_vars, api_vars, oscar,
                   fetched, wcount, handle_vars, inode, ens, rbuf, results,
                   read_pos, count, written, url_cfg, key_cfg, resp, writes>>

\* process_corpus, finally: client.close()
Finally(j) ==
    /\ pc[j] \in {"returned", "raised"}
    /\ client[j] = "open"
    /\ client' = [client EXCEPT ![j] = "closed"]
    /\ calls' = [calls EXCEPT ![j].close = @ + 1]
    /\ UNCHANGED <<redis, queue, pc, params, spec, script, exc, corpus,
                   model_file, model_vars, stub, langid_vars, api_vars, oscar, fetched, wcount, handle_vars, inode, ens, rbuf, results, read_pos, count,
                   written, url_cfg, key_cfg, resp, writes>>

-----------------------------------------------------------------------------
(* ensure_corpus_file, as called at lines 98-110 of process_corpus_impl *)

\* mutant: the handler records the failure and swallows the exception
DownloadFailed_Swallow(j, type, msg) ==
    /\ HSetJob(j, FailedWrite("download_failed", type))
    /\ calls' = [calls EXCEPT ![j].ensure_raised = @ + 1]
    /\ pc' = [pc EXCEPT ![j] = "process"]
    /\ UNCHANGED exc

\* except Exception as exc: hset failed / download_failed; raise
DownloadFailed(j, type, msg) ==
    /\ HSetJob(j, FailedWrite("download_failed", type))
    /\ calls' = [calls EXCEPT ![j].ensure_raised = @ + 1]
    /\ pc' = [pc EXCEPT ![j] = "raised"]
    /\ exc' = [exc EXCEPT ![j] = Raise(type, msg)]

\* mutant: the existing file is not reused
EnsureCheck_NoReuse(j) ==
    /\ pc[j] = "ensure"
    /\ calls' = [calls EXCEPT ![j].ensure = @ + 1]
    /\ pc' = [pc EXCEPT ![j] =
                IF NeedsFilter(spec[j], script[j]) THEN "ensure_filter"
                ELSE "ensure_open"]
    /\ UNCHANGED <<redis, queue, params, spec, script, exc, corpus, model_file, model_vars, stub, langid_vars, api_vars, oscar,
                   fetched, wcount, handle_vars, inode, ens, rbuf, results,
                   read_pos, count, written, url_cfg, key_cfg, resp, client,
                   writes>>

\* lines 95-106: mkdir, path.exists(); the generator of the streamer is
\* created and not yet run
EnsureCheck(j) ==
    /\ pc[j] = "ensure"
    /\ calls' = [calls EXCEPT ![j].ensure = @ + 1]
    /\ pc' = [pc EXCEPT ![j] =
                IF corpus[CorpusPath(spec[j])].exists THEN "process"
                ELSE IF NeedsFilter(spec[j], script[j]) THEN "ensure_filter"
                ELSE "ensure_open"]
    /\ UNCHANGED <<redis, queue, params, spec, script, exc, corpus, model_file, model_vars, stub, langid_vars, api_vars, oscar,
                   fetched, wcount, handle_vars, inode, ens, rbuf, results,
                   read_pos, count, written, url_cfg, key_cfg, resp, client,
                   writes>>

\* lines 110-116: build_lang_script_filter is called; ensure_model_path
\* (langid.py 26-33) checks whether the model file exists
EnsureFilter(j) ==
    /\ pc[j] = "ensure_filter"
    /\ ens' = [ens EXCEPT ![j].filter = TRUE]
    /\ pc' = [pc EXCEPT ![j] = IF model_file THEN "model_load" ELSE "model_get"]
    /\ UNCHANGED <<redis, queue, params, spec, script, exc, corpus, model_file,
                   model_vars, stub, fetched, wcount, handle_vars, inode, rbuf,
                   results, read_pos, count, written, url_cfg, key_cfg, resp,
                   client, writes, calls, langid_vars, api_vars, oscar>>

\* _download lines 17-19: mkdir, requests.get and raise_for_status, which
\* give the response to read the model from, or raise
ModelGet(j) ==
    /\ pc[j] = "model_get"
    /\ \/ /\ calls' = [calls EXCEPT ![j].download = @ + 1]
          /\ pc' = [pc EXCEPT ![j] = "model_open"]
          /\ UNCHANGED <<redis, writes, exc>>
       \/ DownloadFailed(j, "HTTPError", "model download")
    /\ UNCHANGED <<queue, params, spec, script, corpus, model_file, model_vars, stub,
                   fetched, wcount, handle_vars, inode, ens, rbuf, results,
                   read_pos, count, written, url_cfg, key_cfg, resp, client,
                   langid_vars, api_vars, oscar>>

\* _download line 20: dest.open("wb") creates the file or truncates it
ModelOpen(j) ==
    /\ pc[j] = "model_open"
    /\ model_file' = TRUE
    /\ model_len' = 0
    /\ mfh' = [mfh EXCEPT ![j] = 0]
    /\ pc' = [pc EXCEPT ![j] = "model_write"]
    /\ UNCHANGED <<redis, queue, params, spec, script, exc, corpus, fetched,
                   wcount, handle_vars, inode, ens, rbuf, results, read_pos,
                   count, written, url_cfg, key_cfg, resp, client, writes,
                   calls, stub, langid_vars, api_vars, oscar>>

Max(a, b) == IF a >= b THEN a ELSE b

\* _download lines 21-23: one chunk is written at the position of the handle;
\* after the last chunk the handle is closed and ensure_model_path returns
ModelChunk(j) ==
    /\ pc[j] = "model_write"
    /\ mfh[j] < ModelChunks
    /\ model_len' = Max(model_len, mfh[j] + 1)
    /\ IF mfh[j] + 1 = ModelChunks
       THEN /\ mfh' = [mfh EXCEPT ![j] = -1]
            /\ pc' = [pc EXCEPT ![j] = "model_load"]
       ELSE /\ mfh' = [mfh EXCEPT ![j] = @ + 1]
            /\ UNCHANGED pc
    /\ UNCHANGED <<redis, queue, params, spec, script, exc, corpus, model_file,
                   fetched, wcount, handle_vars, inode, ens, rbuf, results,
                   read_pos, count, written, url_cfg, key_cfg, resp, client,
                   writes, calls, stub, langid_vars, api_vars, oscar>>

\* _download line 21: r.iter_content raises while the model is read; the
\* handle is closed on what was written
ModelChunkRaise(j) ==
    /\ pc[j] = "model_write"
    /\ mfh' = [mfh EXCEPT ![j] = -1]
    /\ DownloadFailed(j, "ConnectionError", "model download")
    /\ UNCHANGED <<queue, params, spec, script, corpus, model_file, model_len,
                   fetched, wcount, handle_vars, inode, ens, rbuf, results,
                   read_pos, count, written, url_cfg, key_cfg, resp, client,
                   stub, langid_vars, api_vars, oscar>>

\* build_lang_script_filter line 103: fasttext.load_model reads the file,
\* and raises on a file that is not a whole model
ModelLoad(j) ==
    /\ pc[j] = "model_load"
    /\ IF model_file /\ model_len = ModelChunks
       THEN /\ pc' = [pc EXCEPT ![j] = "ensure_open"]
            /\ UNCHANGED <<redis, writes, exc, calls>>
       ELSE DownloadFailed(j, "ValueError", "model load")
    /\ UNCHANGED <<queue, params, spec, script, corpus, model_file, model_vars, stub,
                   fetched, wcount, handle_vars, inode, ens, rbuf, results,
                   read_pos, count, written, url_cfg, key_cfg, resp, client,
                   langid_vars, api_vars, oscar>>

\* _write_lines line 78: dest.open("w") truncates the file the path names, or
\* creates a new one
EnsureOpen(j) ==
    LET path == CorpusPath(spec[j])
    IN  /\ pc[j] = "ensure_open"
        /\ corpus' = [corpus EXCEPT ![path] = File(<<>>)]
        /\ IF corpus[path].exists
           THEN /\ fh' = [fh EXCEPT ![j] = inode[path]]
                /\ UNCHANGED inode
           ELSE /\ fh' = [fh EXCEPT ![j] = j]
                /\ inode' = [inode EXCEPT ![path] = j]
        /\ buf' = [buf EXCEPT ![j] = <<>>]
        /\ wcount' = [wcount EXCEPT ![j] = 0]
        /\ fetched' = [fetched EXCEPT ![j] = 0]
        /\ pc' = [pc EXCEPT ![j] = "ensure_write"]
        /\ UNCHANGED <<redis, queue, params, spec, script, exc, model_file, model_vars, stub, langid_vars, api_vars, oscar,
                       ens, rbuf, results, read_pos, count, written, url_cfg,
                       key_cfg, resp, client, writes, calls>>

\* the with block of _write_lines is left: the handle is closed and the lines
\* buffered in it are written from offset 0 of the file the handle refers to
Close(j) ==
    /\ buf' = [buf EXCEPT ![j] = <<>>]
    /\ fh' = [fh EXCEPT ![j] = "none"]
    /\ wcount' = [wcount EXCEPT ![j] = 0]
    /\ fetched' = [fetched EXCEPT ![j] = 0]

\* the file at the path of run j once the handle holding lines is closed
Flushed(j, lines) ==
    LET path == CorpusPath(spec[j])
        f == corpus[path]
    IN  IF f.exists /\ inode[path] = fh[j]
        THEN File(Overlay(lines, f.lines))
        ELSE f

\* lines 135-137: written > 0: path.touch(exist_ok=True); return path
Return(j, lines) ==
    LET path == CorpusPath(spec[j])
        f == Flushed(j, lines)
    IN  /\ corpus' = [corpus EXCEPT ![path] = IF f.exists THEN f ELSE File(<<>>)]
        /\ inode' = [inode EXCEPT ![path] = IF f.exists THEN @ ELSE "touch"]
        /\ pc' = [pc EXCEPT ![j] = "process"]

\* _write_lines lines 79-83: the stream yields s, which the filter keeps or
\* drops; a kept line is written to the handle, and at the limit the loop
\* breaks and the call returns
EnsureLine(j, s, pred) ==
    LET filtered == NeedsFilter(spec[j], script[j])
        keep == filtered =>
                    Keep(pred, spec[j].language, script[j],
                         spec[j].confidence_threshold)
        lines == Append(buf[j], WriteLine(s))
    IN  /\ pc[j] = "ensure_write"
        /\ fetched[j] < MaxStream
        /\ ens' = [ens EXCEPT
                     ![j].streamed = Append(@, [s |-> s, keep |-> keep])]
        /\ IF keep
           THEN IF wcount[j] + 1 >= spec[j].max_sentences
                THEN /\ Return(j, lines)
                     /\ Close(j)
                ELSE /\ buf' = [buf EXCEPT ![j] = lines]
                     /\ wcount' = [wcount EXCEPT ![j] = @ + 1]
                     /\ fetched' = [fetched EXCEPT ![j] = @ + 1]
                     /\ UNCHANGED <<pc, corpus, inode, fh>>
           ELSE /\ fetched' = [fetched EXCEPT ![j] = @ + 1]
                /\ UNCHANGED <<corpus, inode, wcount, handle_vars, pc>>
        /\ UNCHANGED <<redis, queue, params, spec, script, exc, model_file, model_vars, stub, langid_vars, api_vars, oscar,
                       rbuf, results, read_pos, count, written, url_cfg,
                       key_cfg, resp, client, writes, calls>>

\* mutant: the empty file is not removed before the error is raised
EnsureEnd_NoUnlink(j) ==
    /\ pc[j] = "ensure_write"
    /\ IF wcount[j] = 0
       THEN /\ DownloadFailed(j, "RuntimeError", "No sentences were written")
            /\ UNCHANGED <<corpus, inode>>
       ELSE /\ Return(j, buf[j])
            /\ UNCHANGED <<redis, writes, exc, calls>>
    /\ Close(j)
    /\ UNCHANGED <<queue, params, spec, script, model_file, model_vars, stub, langid_vars, api_vars, oscar, ens,
                   rbuf, results, read_pos, count, written, url_cfg, key_cfg,
                   resp, client>>

\* the stream is exhausted: lines 127-137
EnsureEnd(j) ==
    LET path == CorpusPath(spec[j])
    IN  /\ pc[j] = "ensure_write"
        /\ IF wcount[j] = 0
           THEN \* path.unlink(missing_ok=True); raise RuntimeError
                /\ corpus' = [corpus EXCEPT ![path] = NoFile]
                /\ inode' = [inode EXCEPT ![path] = "none"]
                /\ DownloadFailed(j, "RuntimeError", "No sentences were written")
           ELSE /\ Return(j, buf[j])
                /\ UNCHANGED <<redis, writes, exc, calls>>
        /\ Close(j)
        /\ UNCHANGED <<queue, params, spec, script, model_file, model_vars, stub, langid_vars, api_vars, oscar, ens, rbuf,
                       results, read_pos, count, written, url_cfg, key_cfg,
                       resp, client>>

\* the stream raises while _write_lines reads it: the with block closes the
\* handle and the exception leaves ensure_corpus_file
EnsureRaise(j) ==
    LET path == CorpusPath(spec[j])
    IN  /\ pc[j] = "ensure_write"
        /\ corpus' = [corpus EXCEPT ![path] = Flushed(j, buf[j])]
        /\ DownloadFailed(j, StreamError(spec[j].source, fetched[j]), "stream")
        /\ Close(j)
        /\ UNCHANGED <<queue, params, spec, script, inode, model_file, model_vars, stub, langid_vars, api_vars, oscar, ens,
                       rbuf, results, read_pos, count, written, url_cfg,
                       key_cfg, resp, client>>

-----------------------------------------------------------------------------
(* process_corpus_impl lines 112-132: the result artifact *)

\* index of the first non-blank line after position pos, 0 when there is none
NextLine(lines, pos) ==
    LET cand == {i \in (pos + 1)..Len(lines) : Strip(lines[i]) # <<>>}
    IN  IF cand = {} THEN 0 ELSE CHOOSE i \in cand : \A m \in cand : i <= m

\* lines 114-118, and LocalCorpusService.stream up to its first read, which
\* takes the whole of a file shorter than the read buffer
ProcessOpen(j) ==
    /\ pc[j] = "process"
    /\ results' = [results EXCEPT ![j] = File(<<>>)]
    /\ written' = [written EXCEPT ![j] = 0]
    /\ read_pos' = [read_pos EXCEPT ![j] = 0]
    /\ count' = [count EXCEPT ![j] = 0]
    /\ ens' = [ens EXCEPT ![j] = NoEns]
    /\ IF corpus[CorpusPath(spec[j])].exists
       THEN /\ pc' = [pc EXCEPT ![j] = "process_line"]
            /\ rbuf' = [rbuf EXCEPT ![j] = corpus[CorpusPath(spec[j])].lines]
            /\ UNCHANGED exc
       ELSE /\ pc' = [pc EXCEPT ![j] = "raised"]
            /\ exc' = [exc EXCEPT ![j] =
                         Raise("FileNotFoundError", "Corpus file not found")]
            /\ UNCHANGED rbuf
    /\ UNCHANGED <<redis, queue, params, spec, script, corpus, model_file, model_vars, stub, langid_vars, api_vars, oscar,
                   fetched, wcount, handle_vars, inode, url_cfg, key_cfg, resp,
                   client, writes, calls>>

\* one iteration of the loop at lines 119-132; ipa_fails: to_ipa raises
ProcessLine(j, ipa_fails) ==
    LET lines == rbuf[j]
        i == NextLine(lines, read_pos[j])
        line == Strip(lines[i])
        n == written[j] + 1
    IN  /\ pc[j] = "process_line"
        /\ i # 0
        /\ read_pos' = [read_pos EXCEPT ![j] = i]
        /\ IF spec[j].transliterate /\ ipa_fails
           THEN /\ pc' = [pc EXCEPT ![j] = "raised"]
                /\ exc' = [exc EXCEPT ![j] =
                             Raise("ValueError", "IPA transliteration")]
                /\ UNCHANGED <<results, written, count, redis, writes>>
           ELSE /\ results' = [results EXCEPT ![j] =
                      File(Append(@.lines,
                           IF spec[j].transliterate THEN Ipa(line) ELSE line))]
                /\ written' = [written EXCEPT ![j] = n]
                /\ IF IsCheckpoint(n)
                   THEN HSetJob(j, CheckpointWrite(n))
                   ELSE UNCHANGED <<redis, writes>>
                /\ count' = [count EXCEPT ![j] = @ + 1]
                /\ pc' = [pc EXCEPT ![j] =
                            IF count[j] + 1 >= spec[j].max_sentences
                            THEN "upload" ELSE "process_line"]
                /\ UNCHANGED exc
        /\ UNCHANGED <<queue, params, spec, script, corpus, model_file, model_vars, stub, langid_vars, api_vars, oscar, fetched,
                       wcount, handle_vars, inode, ens, rbuf, url_cfg, key_cfg, resp, client, calls>>

\* the local reader reaches the end of the corpus file
ProcessEnd(j) ==
    /\ pc[j] = "process_line"
    /\ NextLine(rbuf[j], read_pos[j]) = 0
    /\ pc' = [pc EXCEPT ![j] = "upload"]
    /\ UNCHANGED <<redis, queue, params, spec, script, exc, corpus, model_file, model_vars, stub, langid_vars, api_vars, oscar,
                   fetched, wcount, handle_vars, inode, ens, rbuf, results, read_pos, count, written, url_cfg,
                   key_cfg, resp, client, writes, calls>>

-----------------------------------------------------------------------------
(* process_corpus_impl lines 134-239: upload and completion *)

\* mutant: the failure is recorded and the run goes on to the completion write
UploadFailed_NoRaise(j, error, msg) ==
    /\ HSetJob(j, FailedWrite("upload_failed", error))
    /\ pc' = [pc EXCEPT ![j] = "complete"]
    /\ UNCHANGED exc

\* hset failed / upload_failed; raise UploadError
UploadFailed(j, error, msg) ==
    /\ HSetJob(j, FailedWrite("upload_failed", error))
    /\ pc' = [pc EXCEPT ![j] = "raised"]
    /\ exc' = [exc EXCEPT ![j] = Raise("UploadError", msg)]

\* lines 136-156: read the data-bank settings
UploadConfig(j, url, key) ==
    /\ pc[j] = "upload"
    /\ calls' = [calls EXCEPT ![j].config = @ + 1]
    /\ url_cfg' = [url_cfg EXCEPT ![j] = url]
    /\ key_cfg' = [key_cfg EXCEPT ![j] = key]
    /\ IF ConfigMissing(url, key)
       THEN UploadFailed(j, "config_missing", "data-bank configuration missing")
       ELSE /\ pc' = [pc EXCEPT ![j] = "post"]
            /\ UNCHANGED <<redis, writes, exc>>
    /\ UNCHANGED <<queue, params, spec, script, corpus, model_file, model_vars, stub, langid_vars, api_vars, oscar, fetched,
                   wcount, handle_vars, inode, ens, rbuf, results, read_pos, count, written, resp, client>>

\* lines 164-166: httpx.post returns a response
Post(j, r) ==
    /\ pc[j] = "post"
    /\ calls' = [calls EXCEPT ![j].post = @ + 1]
    /\ resp' = [resp EXCEPT ![j] = r]
    /\ pc' = [pc EXCEPT ![j] = "response"]
    /\ UNCHANGED <<redis, queue, params, spec, script, exc, corpus, model_file, model_vars, stub, langid_vars, api_vars, oscar,
                   fetched, wcount, handle_vars, inode, ens, rbuf, results, read_pos, count, written, url_cfg,
                   key_cfg, client, writes>>

\* mutant: a POST that raises is issued again
PostRaise_Retry(j) ==
    /\ pc[j] = "post"
    /\ calls' = [calls EXCEPT ![j].post = @ + 1]
    /\ UNCHANGED <<redis, queue, pc, params, spec, script, exc, corpus,
                   model_file, model_vars, stub, langid_vars, api_vars, oscar,
                   fetched, wcount, handle_vars, inode, ens, rbuf, results,
                   read_pos, count, written, url_cfg, key_cfg, resp, client,
                   writes>>

\* lines 164-166: httpx.post raises (connection error, timeout)
PostRaise(j) ==
    /\ pc[j] = "post"
    /\ calls' = [calls EXCEPT ![j].post = @ + 1]
    /\ pc' = [pc EXCEPT ![j] = "raised"]
    /\ exc' = [exc EXCEPT ![j] = Raise("ConnectError", "post")]
    /\ UNCHANGED <<redis, queue, params, spec, script, corpus, model_file, model_vars, stub, langid_vars, api_vars, oscar,
                   fetched, wcount, handle_vars, inode, ens, rbuf, results, read_pos, count, written, url_cfg,
                   key_cfg, resp, client, writes>>

\* lines 171-225: the checks on the response and the write they lead to
HandleResponse(j) ==
    LET r == resp[j]
        parsed == JsonLoads(r.text)
    IN  /\ pc[j] = "response"
        /\ IF ~IsSuccessStatus(r.status_code)
           THEN UploadFailed(j, StatusError(r.status_code),
                             "upload failed with status")
           ELSE IF parsed.exc # NoExc
           THEN /\ pc' = [pc EXCEPT ![j] = "raised"]
                /\ exc' = [exc EXCEPT ![j] = parsed.exc]
                /\ UNCHANGED <<redis, writes>>
           ELSE IF ~IsDict(parsed.obj)
           THEN UploadFailed(j, "non_dict_response",
                             "upload response is not a dict")
           ELSE IF ~ValidFileId(parsed.obj)
           THEN UploadFailed(j, "missing_file_id",
                             "missing or invalid file_id in response")
           ELSE /\ HSetJob(j, FileIdWrite(Strip(parsed.obj.file_id.s)))
                /\ pc' = [pc EXCEPT ![j] = "complete"]
                /\ UNCHANGED exc
        /\ UNCHANGED <<queue, params, spec, script, corpus, model_file, model_vars, stub, langid_vars, api_vars, oscar, fetched,
                       wcount, handle_vars, inode, ens, rbuf, results, read_pos, count, written, url_cfg,
                       key_cfg, resp, client, calls>>

\* lines 229-239: mark the job completed and return
Complete(j) ==
    /\ pc[j] = "complete"
    /\ HSetJob(j, CompletedWrite)
    /\ pc' = [pc EXCEPT ![j] = "returned"]
    /\ UNCHANGED <<queue, params, spec, script, exc, corpus, model_file, model_vars, stub, langid_vars, api_vars, oscar,
                   fetched, wcount, handle_vars, inode, ens, rbuf, results, read_pos, count, written, url_cfg,
                   key_cfg, resp, client, calls>>

-----------------------------------------------------------------------------

Next ==
    \E j \in JobIds :
        \/ \E job \in JobCreateSpace : create_job(j, job, 1)
        \/ create_job(j, params[j], 2)
        \/ process_corpus(j)
        \/ \E p \in ParamSpace : process_corpus_impl(j, p)
        \/ Finally(j)
        \/ EnsureCheck(j)
        \/ EnsureFilter(j)
        \/ ModelGet(j)
        \/ ModelOpen(j)
        \/ ModelChunk(j)
        \/ ModelChunkRaise(j)
        \/ ModelLoad(j)
        \/ EnsureOpen(j)
        \/ \E s \in Sentences, pred \in Predictions : EnsureLine(j, s, pred)
        \/ EnsureEnd(j)
        \/ EnsureRaise(j)
        \/ ProcessOpen(j)
        \/ \E ipa_fails \in BOOLEAN : ProcessLine(j, ipa_fails)
        \/ ProcessEnd(j)
        \/ \E url \in Urls, key \in Keys : UploadConfig(j, url, key)
        \/ \E r \in Responses : Post(j, r)
        \/ PostRaise(j)
        \/ HandleResponse(j)
        \/ Complete(j)

Spec == Init /\ [][Next]_vars

-----------------------------------------------------------------------------
(* GET /api/v1/jobs/{job_id}/result, with a completed job's result file     *)
(* removed from the data directory by whoever expires results              *)

\* JobService.get_job_status: None when the hash is empty
get_job_status(j) ==
    IF redis[j] = NoHash THEN None
    ELSE LET status == IF Has(redis[j], "status") THEN redis[j].status
                       ELSE "queued"
         IN  [t |-> "JobStatus",
              status |-> status,
              progress |-> IF Has(redis[j], "progress") THEN redis[j].progress
                           ELSE 0,
              result_url |-> status = "completed" /\ results[j].exists]

\* mutant: the status of the job is not looked at
get_job_result_AnyStatus(j) ==
    LET status_obj == get_job_status(j)
        seen == [record |-> status_obj # None,
                 status |-> IF status_obj = None THEN "none"
                            ELSE status_obj.status,
                 file |-> status_obj # None /\ results[j].exists]
    IN  /\ http' = [http EXCEPT ![j] =
                      IF status_obj = None
                      THEN HttpError(404, "Job not found", seen)
                      ELSE IF ~results[j].exists
                      THEN HttpError(410, "Job result expired", seen)
                      ELSE FileResponse(results[j].lines, seen)]
        /\ UNCHANGED <<job_vars, langid_vars, health_in, health_out, oscar>>

\* get_job_result, main.py lines 70-95
get_job_result(j) ==
    LET status_obj == get_job_status(j)
        looked == status_obj # None /\ status_obj.status = "completed"
        seen == [record |-> status_obj # None,
                 status |-> IF status_obj = None THEN "none"
                            ELSE status_obj.status,
                 file |-> looked /\ results[j].exists]
    IN  /\ http' = [http EXCEPT ![j] =
                      IF status_obj = None
                      THEN HttpError(404, "Job not found", seen)
                      ELSE IF status_obj.status # "completed"
                      THEN HttpError(425, "Job not completed", seen)
                      ELSE IF ~results[j].exists
                      THEN HttpError(410, "Job result expired", seen)
                      ELSE FileResponse(results[j].lines, seen)]
        /\ UNCHANGED <<job_vars, langid_vars, health_in, health_out, oscar>>

\* the result file of a finished job is removed from the data directory
ExpireResult(j) ==
    /\ pc[j] \in {"returned", "raised"}
    /\ results[j].exists
    /\ results' = [results EXCEPT ![j] = NoFile]
    /\ UNCHANGED <<redis, queue, pc, params, spec, script, exc, corpus,
                   model_file, model_vars, stub, fetched, wcount, handle_vars,
                   inode, ens, rbuf, read_pos, count, written, url_cfg,
                   key_cfg, resp, client, writes, calls, langid_vars, api_vars, oscar>>

\* the requests POST /api/v1/jobs accepts here
ApiJobSpace ==
    [source : {PyStr(OSCAR)}, language : {PyStr(KK)},
     max_sentences : {PyInt(1), PyInt(2)},
     transliterate : {PyBool(TRUE), PyBool(FALSE)},
     confidence_threshold : {PyFloat(0)},
     script : {None}]

ApiResponses ==
    {[status_code |-> 200, text |-> JsonDict(PyStr(<<"f", "1">>))],
     [status_code |-> 500, text |-> JsonDict(PyStr(<<"f", "1">>))]}

InitApi == Init /\ corpus[<<OSCAR, KK>>] \in {NoFile, File(<<A, A>>)}

NextApi ==
    \E j \in JobIds :
        \/ \E job \in ApiJobSpace : create_job(j, job, 1)
        \/ create_job(j, params[j], 2)
        \/ process_corpus(j)
        \/ Finally(j)
        \/ EnsureCheck(j)
        \/ EnsureOpen(j)
        \/ EnsureLine(j, A, [labels |-> <<>>, probs |-> <<>>])
        \/ EnsureEnd(j)
        \/ EnsureRaise(j)
        \/ ProcessOpen(j)
        \/ \E ipa_fails \in BOOLEAN : ProcessLine(j, ipa_fails)
        \/ ProcessEnd(j)
        \/ UploadConfig(j, <<"h">>, <<"k">>)
        \/ \E r \in ApiResponses : Post(j, r)
        \/ PostRaise(j)
        \/ HandleResponse(j)
        \/ Complete(j)
        \/ get_job_result(j)
        \/ ExpireResult(j)

SpecApi == InitApi /\ [][NextApi]_vars

-----------------------------------------------------------------------------
(* The health check: the endpoint of create_app, compute_health and the     *)
(* handler of HealthStatusError, each called on its own for each input      *)

InitHealth ==
    /\ InitJobs
    /\ ~model_file
    /\ stub = <<>>
    /\ corpus[<<OSCAR, KK>>] = NoFile
    /\ health_in \in HealthInputs
    /\ oscar = NoOscar
    /\ lid_in = NoLidIn /\ lid_out = NoLidOut

\* GET /api/v1/health, main.py lines 37-52: create_app registers no
\* exception handler, so an exception of redis.ping() leaves the endpoint
health ==
    /\ health_out.endpoint = <<>>
    /\ health_out' = [health_out EXCEPT !.endpoint =
          IF health_in.ping.kind = "raises"
          THEN <<ServerError(health_in.ping.type)>>
          ELSE LET redis_ok == health_in.ping.truthy
                   volume_ok == health_in.data
               IN  <<HealthResponse(DeriveStatus(redis_ok, volume_ok),
                                    redis_ok, volume_ok)>>]
    /\ UNCHANGED <<job_vars, langid_vars, http, health_in, oscar>>

\* compute_health, health.py lines 16-48
compute_health ==
    /\ health_out.computed = <<>>
    /\ health_out' = [health_out EXCEPT !.computed =
          LET volume_ok == health_in.data_dir
          IN  IF health_in.ping.kind = "raises"
              THEN IF IsRedisError(health_in.ping.type)
                   THEN <<HealthStatusError(
                            IF volume_ok THEN "degraded" ELSE "unhealthy",
                            FALSE, volume_ok)>>
                   ELSE <<Raised(health_in.ping.type)>>
              ELSE LET redis_ok == health_in.ping.truthy
                   IN  <<HealthResponse(DeriveStatus(redis_ok, volume_ok),
                                        redis_ok, volume_ok)>>]
    /\ UNCHANGED <<job_vars, langid_vars, http, health_in, oscar>>

\* health_exception_handler, errors.py lines 78-87, given the exception
\* compute_health raised
health_exception_handler ==
    /\ health_out.handled = <<>>
    /\ health_out.computed # <<>>
    /\ health_out.computed[1].code = 0
    /\ health_out' = [health_out EXCEPT !.handled =
          LET e == health_out.computed[1]
          IN  IF e.kind # "HealthStatusError" THEN <<Raised(e.kind)>>
              ELSE <<HealthResponse(e.status, e.redis, e.volume)>>]
    /\ UNCHANGED <<job_vars, langid_vars, http, health_in, oscar>>

NextHealth == health \/ compute_health \/ health_exception_handler

SpecHealth == InitHealth /\ [][NextHealth]_vars

-----------------------------------------------------------------------------
(* stream_oscar called on its own over a loaded dataset, consumed to its end *)

InitOscar ==
    /\ InitJobs
    /\ ~model_file
    /\ stub = <<>>
    /\ corpus[<<OSCAR, KK>>] = NoFile
    /\ health_in = NoHealthIn
    /\ oscar \in {OscarCall(rows) : rows \in Datasets}
    /\ lid_in = NoLidIn /\ lid_out = NoLidOut

\* stream_oscar lines 44-50: one iteration of "for row in ds"
stream_oscar ==
    /\ oscar.pos >= 0
    /\ oscar.pos < Len(oscar.rows)
    /\ oscar' = [oscar EXCEPT
                   !.pos = @ + 1,
                   !.out = @ \o OscarYield(oscar.rows[oscar.pos + 1])]
    /\ UNCHANGED <<job_vars, langid_vars, api_vars>>

NextOscar == stream_oscar

SpecOscar == InitOscar /\ [][NextOscar]_vars

-----------------------------------------------------------------------------
(* _parse_label and the predicate of build_lang_script_filter, called on    *)
(* their own for each input                                                 *)

InitLangid ==
    /\ InitJobs
    /\ ~model_file
    /\ stub = <<>>
    /\ health_in = NoHealthIn
    /\ oscar = NoOscar
    /\ corpus[<<OSCAR, KK>>] = NoFile
    /\ lid_in \in LidInputs
    /\ lid_out = NoLidOut

\* lang, script = _parse_label(label) for the label of the input
ApplyParseLabel ==
    /\ lid_out.parsed = <<>>
    /\ ~lid_in.nolabel
    /\ lid_out' = [lid_out EXCEPT !.parsed = <<parse_label(LabelOf(lid_in))>>]
    /\ UNCHANGED <<lid_in, job_vars, api_vars, oscar>>

\* _keep(text) where the model predicts the input
ApplyKeep ==
    /\ lid_out.kept = <<>>
    /\ lid_out' = [lid_out EXCEPT !.kept =
                     <<Keep(PredictionOf(lid_in), lid_in.target, lid_in.script,
                            lid_in.threshold)>>]
    /\ UNCHANGED <<lid_in, job_vars, api_vars, oscar>>

NextLangid == ApplyParseLabel \/ ApplyKeep

SpecLangid == InitLangid /\ [][NextLangid]_vars

-----------------------------------------------------------------------------
(* Two runs of process_corpus_impl at once, as two RQ workers give, on the  *)
(* same uncached (source, language), with the upload configured            *)

TwoJobParams ==
    [source : {PyStr(OSCAR)}, language : {PyStr(KK)},
     max_sentences : {PyInt(2)},
     transliterate : {PyBool(FALSE)},
     confidence_threshold : {PyFloat(0), PyFloat(95)},
     script : {None}]

\* classifier outputs in the two-run specification: one kept, one dropped
TwoJobPredictions ==
    [labels : {<<LABEL_PREFIX \o <<"k", "a", "z", "_", "C", "y", "r", "l">> >>},
     probs : {<<50>>, <<99>>}]

\* the classifier model is in place, left by an earlier run
InitTwoJobs ==
    /\ InitJobs
    /\ model_file
    /\ stub = <<>>
    /\ health_in = NoHealthIn
    /\ oscar = NoOscar
    /\ corpus[<<OSCAR, KK>>] = NoFile
    /\ lid_in = NoLidIn /\ lid_out = NoLidOut

NextTwoJobs ==
    \E j \in AllJobIds :
        \/ \E p \in TwoJobParams : process_corpus_impl(j, p)
        \/ EnsureCheck(j)
        \/ EnsureFilter(j)
        \/ ModelLoad(j)
        \/ EnsureOpen(j)
        \/ \E s \in Sentences, pred \in TwoJobPredictions :
              EnsureLine(j, s, pred)
        \/ EnsureEnd(j)
        \/ EnsureRaise(j)
        \/ ProcessOpen(j)
        \/ ProcessLine(j, FALSE)
        \/ ProcessEnd(j)
        \/ UploadConfig(j, <<"h">>, <<"k">>)
        \/ Post(j, [status_code |-> 200, text |-> JsonDict(PyStr(<<"f", "1">>))])
        \/ HandleResponse(j)
        \/ Complete(j)

SpecTwoJobs == InitTwoJobs /\ [][NextTwoJobs]_vars

-----------------------------------------------------------------------------
(* Two runs that need the classifier model, from a data directory without   *)
(* it, up to the materialization of the corpus file                         *)

ModelJobParams ==
    [source : {PyStr(OSCAR)}, language : {PyStr(KK)},
     max_sentences : {PyInt(1)},
     transliterate : {PyBool(FALSE)},
     confidence_threshold : {PyFloat(95)},
     script : {None, PyStr(CYRL)}]

InitModel == Init /\ corpus[<<OSCAR, KK>>] = NoFile

NextModel ==
    \E j \in AllJobIds :
        \/ \E p \in ModelJobParams : process_corpus_impl(j, p)
        \/ EnsureCheck(j)
        \/ EnsureFilter(j)
        \/ ModelGet(j)
        \/ ModelOpen(j)
        \/ ModelChunk(j)
        \/ ModelChunkRaise(j)
        \/ ModelLoad(j)
        \/ EnsureOpen(j)
        \/ \E pred \in TwoJobPredictions : EnsureLine(j, A, pred)
        \/ EnsureEnd(j)
        \/ EnsureRaise(j)

SpecModel == InitModel /\ [][NextModel]_vars

-----------------------------------------------------------------------------
(* One run from an empty cache whose streamer is a stub yielding a list, as *)
(* the tests of the repository set it up, unfiltered, with the upload       *)
(* configured and succeeding                                                *)

StubJobParams ==
    [source : {PyStr(OSCAR)}, language : {PyStr(KK)},
     max_sentences : {PyInt(1), PyInt(2)},
     transliterate : {PyBool(TRUE), PyBool(FALSE)},
     confidence_threshold : {PyFloat(0)},
     script : {None}]

InitStub ==
    /\ InitJobs
    /\ ~model_file
    /\ stub \in StubStreams
    /\ health_in = NoHealthIn
    /\ oscar = NoOscar
    /\ corpus[<<OSCAR, KK>>] = NoFile
    /\ lid_in = NoLidIn /\ lid_out = NoLidOut

\* the stub yields its next element to _write_lines
StubLine(j) ==
    /\ fetched[j] < Len(stub)
    /\ EnsureLine(j, stub[fetched[j] + 1], [labels |-> <<>>, probs |-> <<>>])

\* the stub is exhausted
StubEnd(j) ==
    /\ fetched[j] = Len(stub)
    /\ EnsureEnd(j)

NextStub ==
    \E j \in JobIds :
        \/ \E p \in StubJobParams : process_corpus_impl(j, p)
        \/ EnsureCheck(j)
        \/ EnsureOpen(j)
        \/ StubLine(j)
        \/ StubEnd(j)
        \/ ProcessOpen(j)
        \/ ProcessLine(j, FALSE)
        \/ ProcessEnd(j)
        \/ UploadConfig(j, <<"h">>, <<"k">>)
        \/ Post(j, [status_code |-> 200, text |-> JsonDict(PyStr(<<"f", "1">>))])
        \/ HandleResponse(j)
        \/ Complete(j)

SpecStub == InitStub /\ [][NextStub]_vars

-----------------------------------------------------------------------------
(* Properties *)

Status(j) == IF Has(redis[j], "status") THEN redis[j].status ELSE "none"

\* some hset of the run carried status = st
Wrote(j, st) ==
    \E i \in 1..Len(writes[j]) :
        Has(writes[j][i], "status") /\ writes[j][i].status = st

\* the run has left process_corpus_impl
Ended(j) == pc[j] \in {"returned", "raised"}

\* the job record holds exactly this failure
RecordFailed(j, message, error) ==
    /\ Status(j) = "failed"
    /\ Has(redis[j], "message") /\ redis[j].message = message
    /\ Has(redis[j], "error") /\ redis[j].error = error

\* the run ended by raising UploadError, never having written 'completed'
RaisedUploadError(j) ==
    /\ pc[j] = "raised"
    /\ exc[j].type = "UploadError"
    /\ ~Wrote(j, "completed")

Blank(s) == Strip(s) = <<>>

\* C1: with a non-blank upload URL and key, the record is 'completed' (or
\* 'completed' was ever written) only if the upload POST returned before, with
\* a status in 200..299 and a JSON object body whose file_id is a non-blank
\* string.
C1_CompletedOnlyAfterUpload ==
    \A j \in JobIds :
        (/\ ~Blank(url_cfg[j]) /\ ~Blank(key_cfg[j])
         /\ (Status(j) = "completed" \/ Wrote(j, "completed")))
        => /\ calls[j].post >= 1
           /\ 200 <= resp[j].status_code /\ resp[j].status_code <= 299
           /\ resp[j].text.kind = "dict"
           /\ resp[j].text.file_id.t = "str"
           /\ Strip(resp[j].text.file_id.s) # <<>>

C1_Witness ==
    \E j \in JobIds :
        /\ Status(j) = "completed" /\ pc[j] = "returned"
        /\ ~Blank(url_cfg[j]) /\ ~Blank(key_cfg[j])
        /\ calls[j].post = 1

ExpectedStatusError(code) ==
    CASE code = 199 -> "status_199"
      [] code = 300 -> "status_300"
      [] code = 301 -> "status_301"
      [] code = 500 -> "status_500"
      [] OTHER -> "status_?"

\* C2: once the POST has returned a status outside 200..299, 'completed' is
\* never written, the result file exists, and as soon as the response is
\* handled the run has raised UploadError with the record at status 'failed',
\* message 'upload_failed', error 'status_<code>'.
C2_NonSuccessStatusFails ==
    \A j \in JobIds :
        (/\ calls[j].post >= 1 /\ resp[j].status_code # 0
         /\ ~(200 <= resp[j].status_code /\ resp[j].status_code <= 299))
        => /\ ~Wrote(j, "completed")
           /\ results[j].exists
           /\ pc[j] \in {"response", "raised"}
           /\ pc[j] = "raised" =>
                /\ RaisedUploadError(j)
                /\ RecordFailed(j, "upload_failed",
                                ExpectedStatusError(resp[j].status_code))

C2_Witness ==
    \E j \in JobIds :
        /\ pc[j] = "raised" /\ resp[j].status_code = 500
        /\ Status(j) = "failed" /\ Len(results[j].lines) >= 1

\* the file_id of a JSON object body is missing, not a string, or blank
BadFileId(text) ==
    \/ text.file_id.t # "str"
    \/ text.file_id.t = "str" /\ Blank(text.file_id.s)

\* C3: after a 2xx response has been handled: a body that is not a JSON object
\* (a JSON array, or text that is not JSON at all) leaves the record failed
\* with error 'non_dict_response', a JSON object with a missing, non-string or
\* blank file_id leaves it failed with error 'missing_file_id'; in both cases
\* the run raised UploadError, no file_id is stored and 'completed' was never
\* written.
C3_BadBodyFails ==
    \A j \in JobIds :
        (/\ pc[j] \in {"raised", "complete", "returned"}
         /\ 200 <= resp[j].status_code /\ resp[j].status_code <= 299)
        => /\ resp[j].text.kind # "dict" =>
                /\ RecordFailed(j, "upload_failed", "non_dict_response")
                /\ RaisedUploadError(j)
                /\ ~Has(redis[j], "file_id")
           /\ (resp[j].text.kind = "dict" /\ BadFileId(resp[j].text)) =>
                /\ RecordFailed(j, "upload_failed", "missing_file_id")
                /\ RaisedUploadError(j)
                /\ ~Has(redis[j], "file_id")

C5_BlankConfigCompletes ==
    \A j \in JobIds :
        (/\ calls[j].config >= 1 /\ Blank(url_cfg[j]) /\ Blank(key_cfg[j])
         /\ Ended(j))
        => /\ pc[j] = "returned"
           /\ Status(j) = "completed"
           /\ redis[j].progress = 100
           /\ redis[j].message = "done"
           /\ calls[j].post = 0

\* C6: whenever a run that reached the upload step has raised, the record is
\* at status 'failed'.
C6_UploadFailureMarksFailed ==
    \A j \in JobIds :
        (pc[j] = "raised" /\ calls[j].config >= 1) => Status(j) = "failed"

\* C7: once ensure_corpus_file has raised, the run has raised that exception,
\* the record is failed / download_failed with error = the exception's type
\* name, the failed write is the run's last write, and nothing later happened:
\* no result file, no read of the upload settings, no POST, no 'completed'.
C7_DownloadFailureRecorded ==
    \A j \in JobIds :
        calls[j].ensure_raised >= 1
        => /\ pc[j] = "raised"
           /\ exc[j].type \in {"RuntimeError", "ConnectionError", "HTTPError",
                               "ParseError"}
           /\ RecordFailed(j, "download_failed", exc[j].type)
           /\ writes[j] =
                <<InitialWrite, FailedWrite("download_failed", exc[j].type)>>
           /\ calls[j].ensure = 1 /\ calls[j].ensure_raised = 1
           /\ ~results[j].exists
           /\ calls[j].config = 0 /\ calls[j].post = 0
           /\ ~Wrote(j, "completed")

C7_Witness ==
    \E j \in JobIds :
        /\ calls[j].ensure_raised = 1
        /\ exc[j] = Raise("RuntimeError", "No sentences were written")
        /\ Status(j) = "failed"

\* C8: a run that has ended, by return or by any raised error, leaves the
\* record at 'completed' or 'failed'.
C8_EndedRunIsTerminal ==
    \A j \in JobIds : Ended(j) => Status(j) \in {"completed", "failed"}

AllowedMoves ==
    {<<"none", "queued">>, <<"none", "processing">>, <<"queued", "processing">>,
     <<"processing", "completed">>, <<"processing", "failed">>}

\* C9: every change of the status field is one of queued -> processing,
\* processing -> completed, processing -> failed (or the first write of a
\* record); once the status is 'completed' or 'failed' the record is not written
\* again; 'completed' and 'failed' are never both written.
C9_StatusTransitions ==
    [][\A j \in JobIds :
          /\ Status(j) \in {"completed", "failed"} =>
                (redis'[j] = redis[j] /\ writes'[j] = writes[j])
          /\ Status(j)' # Status(j) => <<Status(j), Status(j)'>> \in AllowedMoves
          /\ ~(Wrote(j, "completed")' /\ Wrote(j, "failed")')]_vars

C9_Witness ==
    \E j \in JobIds :
        /\ Status(j) = "failed"
        /\ Has(redis[j], "created_at")
        /\ calls[j].post = 1
        /\ client[j] = "closed"

\* the parameter bag fails the validation of process_corpus_impl
InvalidParams(p) ==
    LET src == Get(p, "source", PyStr(<<>>))
        lang == Get(p, "language", PyStr(<<>>))
        max == Get(p, "max_sentences", PyInt(1000))
        tr == Get(p, "transliterate", PyBool(TRUE))
        thr == Get(p, "confidence_threshold", PyFloat(95))
        scr == Get(p, "script", None)
    IN  \/ src.t # "str"
        \/ lang.t # "str"
        \/ max.t \notin {"int", "bool"}
        \/ tr.t # "bool"
        \/ thr.t \notin {"int", "bool", "float"}
        \/ scr.t \notin {"str", "none"}
        \/ /\ scr.t = "str" /\ ~Blank(scr.s)
           /\ Capitalize(Strip(scr.s)) \notin {LATN, CYRL, ARAB}
        \/ src.t = "str" /\ Strip(src.s) \notin {OSCAR, WIKIPEDIA}
        \/ lang.t = "str" /\ Strip(lang.s) \notin {KK, KY, UZ, TR, UG}

\* C10: a started run whose parameters fail validation has raised TypeError or
\* ValueError; its only write is the initial one, so the record holds
\* processing / 0 / started and no error field; the Corpus Materializer, the
\* model download, the result file and the upload were never touched.
C10_InvalidParamsOnlyInitialWrite ==
    \A j \in JobIds :
        (pc[j] \notin {"new", "queued"} /\ InvalidParams(params[j]))
        => /\ pc[j] = "raised"
           /\ exc[j].type \in {"TypeError", "ValueError"}
           /\ writes[j] = <<InitialWrite>>
           /\ Status(j) = "processing"
           /\ redis[j].progress = 0 /\ redis[j].message = "started"
           /\ ~Has(redis[j], "error")
           /\ calls[j].ensure = 0 /\ calls[j].config = 0 /\ calls[j].post = 0
           /\ ~model_file
           /\ ~results[j].exists

C10_Witness ==
    \E j \in JobIds :
        /\ pc[j] = "raised"
        /\ params[j].script = PyStr(<<"G", "r", "e", "e", "k">>)
        /\ params[j].source = PyStr(OSCAR)
        /\ exc[j] = Raise("ValueError", "Invalid script")

\* C11: in the sequence of writes of one run, the progress values never
\* decrease from one write that carries progress to the next one that does,
\* a write carries progress 100 exactly when it is the 'completed' write, and
\* every other progress written is at most 99.
C11_ProgressMonotoneClamped ==
    \A j \in JobIds :
        LET w == writes[j]
            P == {i \in 1..Len(w) : Has(w[i], "progress")}
        IN  /\ \A a, b \in P : a <= b => w[a].progress <= w[b].progress
            /\ \A i \in P :
                  /\ (w[i].progress = 100) <=>
                        (Has(w[i], "status") /\ w[i].status = "completed")
                  /\ ~(Has(w[i], "status") /\ w[i].status = "completed")
                        => w[i].progress <= 99
            /\ Has(redis[j], "progress") /\ Status(j) # "completed"
                  => redis[j].progress <= 99

\* a run wrote the checkpoints of lines 50 and 100 and then completed
C11_Witness ==
    \E j \in JobIds :
        /\ Len(writes[j]) >= 5
        /\ writes[j][2] = CheckpointWrite(50)
        /\ writes[j][3] = CheckpointWrite(100)
        /\ writes[j][3].progress = 99
        /\ writes[j][Len(writes[j])] = CompletedWrite

\* C12: when the file at the canonical path exists, the step in which a run
\* calls ensure_corpus_file returns at once: the run goes on to read the file,
\* no stream is read, the filter is not built, no model is fetched, no handle
\* is opened, nothing is raised and every corpus file is as it was; this for
\* every script, threshold and max_sentences of the request.  The state the
\* call leaves is the state it met, so a second call returns the same way.
C12_ExistingFileReused ==
    [][\A j \in JobIds :
          (/\ pc[j] = "ensure"
           /\ corpus[CorpusPath(spec[j])].exists
           /\ pc'[j] # "ensure")
          => /\ pc'[j] = "process"
             /\ corpus' = corpus
             /\ inode' = inode
             /\ model_file' = model_file
             /\ ens'[j] = NoEns
             /\ fh'[j] = "none" /\ buf'[j] = <<>>
             /\ exc'[j] = NoExc
             /\ calls'[j].ensure_raised = 0]_vars

\* a filtered request with limit 0 got the existing two-line file back untouched
C12_Witness ==
    \E j \in JobIds :
        /\ pc[j] = "process"
        /\ calls[j].ensure = 1
        /\ script[j] = PyStr(LATN)
        /\ spec[j].confidence_threshold = 95
        /\ spec[j].max_sentences = 0
        /\ corpus[CorpusPath(spec[j])] = File(<<A, A>>)
        /\ ens[j] = NoEns
        /\ ~model_file

\* the entries of the call history the filter kept (all, when unfiltered)
IsKept(e) == e.keep

\* the lines _write_lines makes of the sentences that survived, in stream order
RECURSIVE WrittenForm(_)
WrittenForm(entries) ==
    IF entries = <<>> THEN <<>>
    ELSE <<WriteLine(Head(entries).s)>> \o WrittenForm(Tail(entries))

Survivors(j) == WrittenForm(SelectSeq(ens[j].streamed, IsKept))

\* the call of run j has returned after reading its stream
Materialized(j) == pc[j] = "process" /\ ens[j].streamed # <<>>

\* C13: when a call that found no file returns, with N sentences having
\* survived out of its stream and max_sentences = k, the file holds exactly
\* min(k, N) lines, the first min(k, N) survivors in stream order.
C13_FileIsFirstMinKN ==
    \A j \in JobIds :
        Materialized(j) =>
            LET k == spec[j].max_sentences
                n == Min(k, Len(Survivors(j)))
                f == corpus[CorpusPath(spec[j])]
            IN  /\ f.exists
                /\ Len(f.lines) = n
                /\ f.lines = SubSeq(Survivors(j), 1, n)

\* the error of lines 128-134
NoSentences == Raise("RuntimeError", "No sentences were written")

C15_NoEmptyFileAfterFailure ==
    \A j \in JobIds :
        (pc[j] = "raised" /\ calls[j].ensure_raised >= 1)
        => LET f == corpus[CorpusPath(spec[j])]
           IN  ~(f.exists /\ f.lines = <<>>)

\* the complete output of the writer of run j: its survivors up to its limit
Output(j) ==
    SubSeq(Survivors(j), 1, Min(spec[j].max_sentences, Len(Survivors(j))))

\* C16: when two runs have both materialized the same uncached (source,
\* language) and both calls have returned, the file at the canonical path is
\* the complete output of one of the two writers.
C16_LastWriterWins ==
    (/\ \A j \in AllJobIds : Materialized(j)
     /\ CorpusPath(spec["j1"]) = CorpusPath(spec["j2"]))
    => LET f == corpus[CorpusPath(spec["j1"])]
       IN  f.exists /\ f.lines \in {Output("j1"), Output("j2")}

\* another run has the file of run j open for writing
BeingWritten(j) ==
    \E i \in AllJobIds \ {j} :
        /\ pc[i] = "ensure_write"
        /\ CorpusPath(spec[i]) = CorpusPath(spec[j])

\* C17: no call of ensure_corpus_file returns through the existence check,
\* and no run opens the corpus file for reading, while another run's
\* materialization of that file is open for writing.
C17_NeverPartiallyVisible ==
    [][\A j \in AllJobIds :
          /\ (pc[j] = "ensure" /\ pc'[j] = "process") => ~BeingWritten(j)
          /\ (pc[j] = "process" /\ pc'[j] = "process_line")
                => ~BeingWritten(j)]_vars

\* C18: for a sentence predicted as (language X, script Y, probability p) the
\* predicate returns true exactly when X is the target language, the
\* normalized script filter is absent or equal to Y, and p >= threshold.
C18_KeepIffAllThree ==
    lid_out.kept # <<>> =>
        LET pred == PredictionOf(lid_in)
            label == IF pred.labels = <<>> THEN <<>> ELSE pred.labels[1]
            X == parse_label(label).lang
            Y == parse_label(label).script
            p == IF pred.probs = <<>> THEN 0 ELSE pred.probs[1]
            filter == FilterScriptNorm(lid_in.script)
        IN  lid_out.kept[1] <=>
                /\ X = lid_in.target
                /\ (filter = None \/ Y = filter)
                /\ p >= lid_in.threshold

\* 'kaz_Cyrl' at probability 0.50 is kept by a kk filter with script ' CYRL'
\* and threshold 0.50
C18_Witness ==
    /\ lid_out.kept = <<TRUE>>
    /\ ~lid_in.nolabel
    /\ LabelOf(lid_in) = LABEL_PREFIX \o <<"k", "a", "z", "_", "C", "y", "r", "l">>
    /\ lid_in.probs = <<50>> /\ lid_in.threshold = 50
    /\ lid_in.target = KK
    /\ lid_in.script = PyStr(<<" ", "C", "Y", "R", "L">>)

\* the fixed table of label parsing as the claim gives it
TableLang(code) ==
    IF code = <<"k", "a", "z">> THEN <<"k", "k">>
    ELSE IF code = <<"k", "i", "r">> THEN <<"k", "y">>
    ELSE IF code = <<"t", "u", "r">> THEN <<"t", "r">>
    ELSE IF code \in {<<"u", "z", "n">>, <<"u", "z", "s">>} THEN <<"u", "z">>
    ELSE IF code = <<"u", "i", "g">> THEN <<"u", "g">>
    ELSE code

\* C20: parsing a label made of an optional prefix, a code and an optional
\* '_' + suffix gives the code mapped through the table (unknown codes
\* unchanged) and, as script, the whole suffix after the first underscore, or
\* null when the label has no underscore.
C20_ParseLabel ==
    lid_out.parsed # <<>> =>
        /\ lid_out.parsed[1].lang = TableLang(lid_in.code)
        /\ lid_out.parsed[1].script =
              IF lid_in.suffix = <<>> THEN None ELSE PyStr(lid_in.suffix[1])

\* '__label__kaz_Cyrl' gives ('kk', 'Cyrl')
C20_Witness ==
    /\ lid_in.prefix /\ lid_in.code = <<"k", "a", "z">>
    /\ lid_in.suffix = <<CYRL>>
    /\ lid_out.parsed = <<[lang |-> KK, script |-> PyStr(CYRL)]>>

\* C19: in a call that streams, the filter is built and applied exactly when
\* confidence_threshold > 0 or a script is given.  When it is not, no
\* classifier model is fetched, no streamed sentence is dropped and the lines
\* written are all the sentences streamed, in order; when it is, the lines
\* written are the sentences the predicate kept.
C19_FilterIffThresholdOrScript ==
    \A j \in JobIds :
        (pc[j] \in {"ensure_open", "ensure_write"} \/ Materialized(j)) =>
            LET wanted == spec[j].confidence_threshold > 0 \/ script[j] # None
                all == WrittenForm(ens[j].streamed)
            IN  /\ ens[j].filter <=> wanted
                /\ pc[j] = "ensure_write" => buf[j] = Survivors(j)
                /\ ~wanted =>
                      /\ ~model_file
                      /\ \A i \in 1..Len(ens[j].streamed) :
                            ens[j].streamed[i].keep
                      /\ Survivors(j) = all
                      /\ Materialized(j) =>
                            corpus[CorpusPath(spec[j])].lines = all

\* threshold 0 and script 'latn': the filter ran, dropped the first sentence
\* and kept the second
C19_Witness ==
    \E j \in JobIds :
        /\ pc[j] = "ensure_write"
        /\ spec[j].confidence_threshold = 0
        /\ script[j] = PyStr(LATN)
        /\ ens[j].filter
        /\ Len(ens[j].streamed) = 2
        /\ ~ens[j].streamed[1].keep /\ ens[j].streamed[2].keep
        /\ buf[j] = <<WriteLine(ens[j].streamed[2].s)>>

\* first letter uppercase, the rest lowercase
FirstUpperRestLower(t) ==
    IF t = <<>> THEN <<>>
    ELSE <<UpperChar(t[1])>> \o [i \in 1..(Len(t) - 1) |-> LowerChar(t[i + 1])]

\* the other parameters of the bag pass their type checks
OtherTypesValid(p) ==
    /\ Get(p, "source", PyStr(<<>>)).t = "str"
    /\ Get(p, "language", PyStr(<<>>)).t = "str"
    /\ Get(p, "max_sentences", PyInt(1000)).t \in {"int", "bool"}
    /\ Get(p, "transliterate", PyBool(TRUE)).t = "bool"
    /\ Get(p, "confidence_threshold", PyFloat(95)).t \in {"int", "bool", "float"}

\* the source and the language of the bag are supported ones
SourceLanguageValid(p) ==
    /\ Strip(Get(p, "source", PyStr(<<>>)).s) \in {OSCAR, WIKIPEDIA}
    /\ Strip(Get(p, "language", PyStr(<<>>)).s) \in {KK, KY, UZ, TR, UG}

\* C21: for a started run with script parameter sv: when the run got past
\* validation, the script it hands to the Corpus Materializer is 'no filter'
\* if sv is null or blank, and otherwise the trimmed sv with its first letter
\* uppercased and the rest lowercased, which is then one of Latn, Cyrl, Arab;
\* when that form is none of the three the run raised a validation error
\* (ValueError 'Invalid script' if the other parameters are well typed) and
\* never called the Materializer; a null, blank or supported script is never
\* the reason a run fails validation; and normalizing the normalized script gives
\* it back unchanged.
C21_ScriptNormalization ==
    \A j \in JobIds :
        pc[j] \notin {"new", "created", "queued"} =>
            LET sv == Get(params[j], "script", None)
                blank == sv = None \/ (sv.t = "str" /\ Blank(sv.s))
                norm == IF sv.t = "str" THEN FirstUpperRestLower(Strip(sv.s))
                        ELSE <<>>
                validated == spec[j] # NoSpec
            IN  /\ validated =>
                    /\ sv.t \in {"none", "str"}
                    /\ blank => script[j] = None
                    /\ ~blank => (norm \in {LATN, CYRL, ARAB}
                                  /\ script[j] = PyStr(norm))
                    /\ NormalizeScript(script[j]) =
                          [exc |-> NoExc, script |-> script[j]]
                /\ (sv.t = "str" /\ ~blank /\ norm \notin {LATN, CYRL, ARAB}) =>
                    /\ pc[j] = "raised"
                    /\ exc[j].type \in {"TypeError", "ValueError"}
                    /\ OtherTypesValid(params[j]) =>
                          exc[j] = Raise("ValueError", "Invalid script")
                    /\ calls[j].ensure = 0
                /\ (/\ OtherTypesValid(params[j])
                    /\ SourceLanguageValid(params[j])
                    /\ blank \/ norm \in {LATN, CYRL, ARAB})
                   => validated
                /\ ~validated => (script[j] = None /\ calls[j].ensure = 0)
                /\ calls[j].ensure >= 1 => validated

\* 'lATn' reached the Corpus Materializer as 'Latn' and its filter was applied
C21_Witness ==
    \E j \in JobIds :
        /\ params[j].script = PyStr(<<"l", "A", "T", "n">>)
        /\ script[j] = PyStr(LATN)
        /\ calls[j].ensure = 1
        /\ ens[j].filter
        /\ ens[j].streamed # <<>>

\* downloads of the model begun by all runs together
TotalDownloads == calls["j1"].download + calls["j2"].download

\* the model file is on disk and holds the whole model
ModelWhole == model_file /\ model_len = ModelChunks

\* C22: over all runs, a download of the model is begun, and the file opened
\* for writing, only while no model file is there; a call that finds the file
\* goes on to load it without downloading; a model file that is there whole
\* is never changed; and in all at most one download is ever begun.
C22_ModelDownloadedOnce ==
    [][/\ \A j \in AllJobIds :
             /\ (pc[j] = "model_get" /\ pc'[j] = "model_open") => ~model_file
             /\ (pc[j] = "model_open" /\ pc'[j] = "model_write") => ~model_file
             /\ (pc[j] = "ensure_filter" /\ model_file /\ pc'[j] # pc[j])
                   => (pc'[j] = "model_load" /\ calls'[j] = calls[j])
       /\ ModelWhole => ModelWhole'
       /\ TotalDownloads' <= 1]_vars

NonEmpty(s) == s # <<>>

\* the result line of a sentence
RECURSIVE ResultForm(_, _)
ResultForm(sentences, transliterate) ==
    IF sentences = <<>> THEN <<>>
    ELSE <<IF transliterate THEN Ipa(Head(sentences)) ELSE Head(sentences)>>
         \o ResultForm(Tail(sentences), transliterate)

\* C23: when a run on an uncached (source, language) whose stream yields the
\* list s1..sn has returned, the result file holds exactly the first
\* min(max_sentences, number of non-empty si) non-empty si in stream order,
\* each transliterated iff spec.transliterate, and the record is at status
\* 'completed' with progress 100.
C23_ResultIsFirstMinKN ==
    \A j \in JobIds :
        pc[j] = "returned" =>
            LET nonempty == SelectSeq(stub, NonEmpty)
                n == Min(spec[j].max_sentences, Len(nonempty))
            IN  /\ results[j] =
                      File(ResultForm(SubSeq(nonempty, 1, n),
                                      spec[j].transliterate))
                /\ Status(j) = "completed"
                /\ redis[j].progress = 100

\* C25: for each job id, create_job writes the queued record at most once,
\* onto no earlier record, with status 'queued'; it enqueues at most one
\* job, an api.jobs.process_corpus job carrying that id, and only after the
\* record was written; and a status that is not 'queued' never becomes
\* 'queued', so the worker's 'processing' is never overwritten.
C25_QueuedWrittenBeforeEnqueue ==
    [][\A j \in JobIds :
          /\ calls'[j].persist <= 1 /\ calls'[j].enqueue <= 1
          /\ calls'[j].enqueue = 1 => calls'[j].persist = 1
          /\ (calls[j].persist = 0 /\ calls'[j].persist = 1) =>
                /\ redis[j] = NoHash
                /\ redis'[j] = [status |-> "queued",
                                source |-> params'[j].source.s,
                                language |-> params'[j].language.s,
                                created_at |-> "now"]
                /\ queue' = queue
          /\ (calls[j].enqueue = 0 /\ calls'[j].enqueue = 1) =>
                /\ Status(j) = "queued" /\ redis'[j] = redis[j]
                /\ queue' = Append(queue, [func |-> "api.jobs.process_corpus",
                                           job_id |-> j, params |-> params[j]])
          /\ (Status(j) # "queued" /\ Status(j)' = "queued") =>
                Status(j) = "none"]_vars

\* the job was submitted, a worker took it, and the record shows the worker's
\* 'processing' on top of the submission's fields
C25_Witness ==
    \E j \in JobIds :
        /\ calls[j].persist = 1 /\ calls[j].enqueue = 1
        /\ queue = <<>>
        /\ Status(j) = "processing"
        /\ Has(redis[j], "created_at")
        /\ writes[j] = <<InitialWrite>>

\* C24: a request for a job's result is answered 404 exactly when no record
\* exists, 425 exactly when the record's status is queued, processing or
\* failed, 410 exactly when the status is completed and the result file is
\* missing, and with the file (200) exactly when the status is completed and
\* the file exists; a job whose result was served is completed, and what was
\* served is what its run wrote.
C24_ResultOnlyWhenCompleted ==
    \A j \in JobIds :
        http[j].code # 0 =>
            LET seen == http[j].seen
            IN  /\ http[j].code \in {200, 404, 410, 425}
                /\ http[j].code = 404 <=> ~seen.record
                /\ http[j].code = 425 <=>
                      seen.status \in {"queued", "processing", "failed"}
                /\ http[j].code = 410 <=>
                      (seen.status = "completed" /\ ~seen.file)
                /\ http[j].code = 200 <=>
                      (seen.record /\ seen.status = "completed" /\ seen.file)
                /\ seen.record => seen.status \in
                      {"queued", "processing", "completed", "failed"}
                /\ http[j].code = 200 =>
                      /\ Status(j) = "completed" /\ pc[j] = "returned"
                      /\ Wrote(j, "completed")
                      /\ Len(http[j].body) = written[j]
                      /\ results[j].exists => http[j].body = results[j].lines
                /\ seen.record => redis[j] # NoHash

\* the two-line result of a completed job was served
C24_Witness ==
    \E j \in JobIds :
        /\ http[j].code = 200
        /\ http[j].body = <<Ipa(A), Ipa(A)>>
        /\ Status(j) = "completed"

\* C26: within one run ensure_corpus_file is called at most once and the
\* upload POST is issued at most once; and once the run has failed (an
\* exception has left process_corpus_impl) no step acquires, writes or uploads
\* anything more: the record, the corpus files, the model file, the result
\* file, the response and the call counts stay as they are, and the run is
\* not started again.
C26_NoRetry ==
    [][\A j \in JobIds :
          /\ calls'[j].ensure <= 1
          /\ calls'[j].post <= 1
          /\ calls'[j].download <= 1
          /\ calls'[j].config <= 1
          /\ pc[j] = "raised" =>
                /\ pc'[j] = "raised"
                /\ exc'[j] = exc[j]
                /\ redis' = redis /\ writes' = writes
                /\ corpus' = corpus /\ inode' = inode
                /\ model_file' = model_file /\ model_len' = model_len
                /\ results' = results
                /\ resp' = resp
                /\ queue' = queue
                /\ calls'[j].ensure = calls[j].ensure
                /\ calls'[j].download = calls[j].download
                /\ calls'[j].config = calls[j].config
                /\ calls'[j].post = calls[j].post]_vars

\* the POST raised once; the run ended there and its client was closed
C26_Witness ==
    \E j \in JobIds :
        /\ pc[j] = "raised"
        /\ exc[j].type = "ConnectError"
        /\ calls[j].ensure = 1 /\ calls[j].post = 1
        /\ client[j] = "closed"

\* the ping succeeded: it returned, and what it returned is true
PingOk == health_in.ping.kind = "value" /\ health_in.ping.truthy

\* the claim's table for an answer that reports a health status, given the
\* results of the two checks
HealthTable(answer, redis_ok, volume_ok) ==
    /\ answer.status \in {"healthy", "degraded", "unhealthy"}
    /\ answer.status = "healthy" <=> (redis_ok /\ volume_ok)
    /\ answer.status = "degraded" <=> (redis_ok # volume_ok)
    /\ answer.status = "unhealthy" <=> (~redis_ok /\ ~volume_ok)
    /\ answer.redis = redis_ok
    /\ answer.volume = volume_ok

\* C27: every answer that reports a health status (the endpoint's payload,
\* what compute_health returns or carries in its HealthStatusError, and the
\* payload its handler builds) reports 'healthy' iff the ping and the volume
\* check both succeeded, 'degraded' iff exactly one did, 'unhealthy' iff
\* neither did, and its redis and volume booleans are the two check results.
C27_HealthStatusTable ==
    /\ \A i \in 1..Len(health_out.endpoint) :
          health_out.endpoint[i].status # "none" =>
              HealthTable(health_out.endpoint[i], PingOk, health_in.data)
    /\ \A i \in 1..Len(health_out.computed) :
          health_out.computed[i].status # "none" =>
              HealthTable(health_out.computed[i], PingOk, health_in.data_dir)
    /\ \A i \in 1..Len(health_out.handled) :
          health_out.handled[i].status # "none" =>
              HealthTable(health_out.handled[i], PingOk, health_in.data_dir)
    /\ \A i \in 1..Len(health_out.endpoint) :
          health_in.ping.kind = "value" =>
              health_out.endpoint[i].status # "none"
    /\ \A i \in 1..Len(health_out.computed) :
          (health_in.ping.kind = "value" \/ IsRedisError(health_in.ping.type))
              => health_out.computed[i].status # "none"

\* the ping answered false and the volume exists: both functions say degraded
C27_Witness ==
    /\ health_in.ping = [kind |-> "value", truthy |-> FALSE]
    /\ health_in.data /\ health_in.data_dir
    /\ health_out.endpoint = <<HealthResponse("degraded", FALSE, TRUE)>>
    /\ health_out.computed = <<HealthResponse("degraded", FALSE, TRUE)>>

\* C28: the health endpoint answers every request with 200 and a health
\* payload; when the ping raised a Redis error the payload has redis = false
\* and status 'degraded' if the data volume exists, 'unhealthy' if not.
C28_HealthAlways200 ==
    \A i \in 1..Len(health_out.endpoint) :
        (health_in.ping.kind = "value" \/ IsRedisError(health_in.ping.type)) =>
            LET answer == health_out.endpoint[i]
            IN  /\ answer.code = 200
                /\ answer.status \in {"healthy", "degraded", "unhealthy"}
                /\ health_in.ping.kind = "raises" =>
                      /\ answer.redis = FALSE
                      /\ answer.status =
                            IF health_in.data THEN "degraded" ELSE "unhealthy"

\* C29: a step of the line loop that writes result line number n writes the
\* job record exactly when n is a positive multiple of 50; the write is one
\* mapping with progress = min(99, n) and message 'processing' and no status
\* field, so the status of the record stays what it was; no other step of
\* the line loop writes the record.
C29_CheckpointEvery50 ==
    [][\A j \in JobIds :
          /\ (pc[j] = "process_line" /\ written'[j] # written[j]) =>
                LET n == written'[j]
                IN  /\ n = written[j] + 1
                    /\ IF n > 0 /\ n % 50 = 0
                       THEN /\ Len(writes'[j]) = Len(writes[j]) + 1
                            /\ SubSeq(writes'[j], 1, Len(writes[j])) = writes[j]
                            /\ LET w == writes'[j][Len(writes'[j])]
                               IN  /\ w.progress = IF n < 99 THEN n ELSE 99
                                   /\ w.message = "processing"
                                   /\ ~Has(w, "status")
                            /\ redis'[j].progress = IF n < 99 THEN n ELSE 99
                            /\ redis'[j].message = "processing"
                            /\ redis'[j].status = redis[j].status
                       ELSE /\ writes'[j] = writes[j]
                            /\ redis'[j] = redis[j]
          /\ (pc[j] = "process_line" /\ writes'[j] # writes[j]) =>
                written'[j] = written[j] + 1
      ]_vars

\* line 50 has just been written: the record holds the first checkpoint and
\* the run is still in the line loop
C29_Witness ==
    \E j \in JobIds :
        /\ pc[j] = "process_line"
        /\ written[j] = 50
        /\ Len(writes[j]) = 2
        /\ writes[j][2].progress = 50
        /\ redis[j].message = "processing"
        /\ redis[j].status = "processing"

\* C30: in the sequence of writes of a run, every write that sets status
\* 'completed' comes strictly after a write that stores a non-blank file_id
\* together with upload_status 'uploaded'; so whenever the status of a record
\* is 'completed' the record holds a non-blank file_id and upload_status
\* 'uploaded', and the upload was answered with success.
C30_FileIdBeforeCompleted ==
    \A j \in JobIds :
        LET w == writes[j]
        IN  /\ \A k \in 1..Len(w) :
                  (Has(w[k], "status") /\ w[k].status = "completed") =>
                      \E i \in 1..(k - 1) :
                          /\ Has(w[i], "file_id")
                          /\ Strip(w[i].file_id) # <<>>
                          /\ Has(w[i], "upload_status")
                          /\ w[i].upload_status = "uploaded"
                          /\ ~Has(w[i], "status")
            /\ Status(j) = "completed" =>
                  /\ Has(redis[j], "file_id")
                  /\ Strip(redis[j].file_id) # <<>>
                  /\ Has(redis[j], "upload_status")
                  /\ redis[j].upload_status = "uploaded"
                  /\ calls[j].post = 1
            /\ pc[j] = "complete" =>
                  /\ Has(redis[j], "file_id")
                  /\ Status(j) = "processing"

\* a run stored the stripped file id " f1" of the answer and then completed
C30_Witness ==
    \E j \in JobIds :
        /\ Status(j) = "completed"
        /\ Len(writes[j]) >= 3
        /\ writes[j][Len(writes[j])] = CompletedWrite
        /\ writes[j][Len(writes[j]) - 1] = FileIdWrite(<<"f", "1">>)
        /\ redis[j].file_id = <<"f", "1">>
        /\ redis[j].upload_status = "uploaded"

\* the checks of the claim in their order, each with whether the bag fails it
\* and the error it stands for
CheckOrder(p) ==
    LET src == Get(p, "source", PyStr(<<>>))
        lang == Get(p, "language", PyStr(<<>>))
        max == Get(p, "max_sentences", PyInt(1000))
        tr == Get(p, "transliterate", PyBool(TRUE))
        thr == Get(p, "confidence_threshold", PyFloat(95))
        scr == Get(p, "script", None)
    IN  << [bad |-> src.t # "str" \/ lang.t # "str",
            exc |-> Raise("TypeError", "source and language must be strings")],
           [bad |-> max.t \notin {"int", "bool"},
            exc |-> Raise("TypeError", "max_sentences must be int")],
           [bad |-> tr.t # "bool",
            exc |-> Raise("TypeError", "transliterate must be bool")],
           [bad |-> thr.t \notin {"int", "bool", "float"},
            exc |-> Raise("TypeError", "confidence_threshold must be a number")],
           [bad |-> scr.t \notin {"str", "none"},
            exc |-> Raise("TypeError", "script must be a string or null")],
           [bad |-> /\ scr.t = "str" /\ ~Blank(scr.s)
                    /\ FirstUpperRestLower(Strip(scr.s)) \notin {LATN, CYRL, ARAB},
            exc |-> Raise("ValueError", "Invalid script")],
           [bad |-> /\ src.t = "str" /\ lang.t = "str"
                    /\ \/ Strip(src.s) \notin {OSCAR, WIKIPEDIA}
                       \/ Strip(lang.s) \notin {KK, KY, UZ, TR, UG},
            exc |-> Raise("ValueError", "Invalid source or language")] >>

\* the checks the bag fails
FailedChecks(p) == {i \in 1..Len(CheckOrder(p)) : CheckOrder(p)[i].bad}

\* the error of the first check the bag fails, NoExc when it fails none
FirstError(p) ==
    IF FailedChecks(p) = {} THEN NoExc
    ELSE LET i == CHOOSE k \in FailedChecks(p) :
                      \A m \in FailedChecks(p) : k <= m
         IN  CheckOrder(p)[i].exc

\* C31: a started run whose parameter bag fails one or more of the checks
\* (string type of source/language, integer type of max_sentences, boolean
\* type of transliterate, numeric type of confidence_threshold, type of
\* script, value of script, enum membership of source/language) has raised
\* the error of the first check it fails in that order, and a bag that fails
\* none passes validation.
C31_FirstFailingCheckDecides ==
    \A j \in JobIds :
        pc[j] \notin {"new", "created", "queued"} =>
            LET e == FirstError(params[j])
            IN  /\ e # NoExc => (pc[j] = "raised" /\ exc[j] = e)
                /\ e = NoExc => spec[j] # NoSpec

\* an unsupported script together with an out-of-enum source: the run raised
\* the invalid-script error
C31_Witness ==
    \E j \in JobIds :
        /\ pc[j] = "raised"
        /\ params[j].script = PyStr(<<"G", "r", "e", "e", "k">>)
        /\ params[j].source = PyStr(<<"x">>)
        /\ Cardinality(FailedChecks(params[j])) >= 2
        /\ exc[j] = Raise("ValueError", "Invalid script")

\* C32: whatever max_sentences the validation accepted, zero included, the
\* lines a call of the Corpus Materializer has buffered for the corpus file
\* are never more than max_sentences, and the file it leaves when it returns
\* holds at most max_sentences lines.
C32_AtMostMaxSentences ==
    \A j \in JobIds :
        /\ pc[j] = "ensure_write" => Len(buf[j]) <= spec[j].max_sentences
        /\ Materialized(j) =>
              Len(corpus[CorpusPath(spec[j])].lines) <= spec[j].max_sentences

\* the non-blank lines of the corpus file a run reads, trimmed, in file order
NonBlankRead(j) ==
    SelectSeq([i \in 1..Len(rbuf[j]) |-> Strip(rbuf[j][i])], NonEmpty)

\* C33: the result file of a run never holds more lines than the run's
\* max_sentences, however many lines the corpus file it reads holds; its
\* lines are the first non-blank lines of that file in file order, each
\* transliterated iff asked, and once the reader has stopped they are the
\* first min(max_sentences, number of non-blank lines) of them.
C33_ResultAtMostMaxSentences ==
    \A j \in JobIds :
        results[j].exists =>
            LET r == results[j].lines
                nb == NonBlankRead(j)
            IN  /\ Len(r) <= spec[j].max_sentences
                /\ Len(r) <= Len(nb)
                /\ r = ResultForm(SubSeq(nb, 1, Len(r)), spec[j].transliterate)
                /\ pc[j] \in {"upload", "post", "response", "complete",
                              "returned"} =>
                      Len(r) = Min(spec[j].max_sentences, Len(nb))

\* the row is a mapping with a string under "text" whose trimmed value is
\* not empty
HasText(row) ==
    /\ row.kind = "dict"
    /\ row.text.t = "str"
    /\ Strip(row.text.s) # <<>>

\* C34: at every point of the iteration, what stream_oscar has yielded is, in
\* record order, the trimmed 'text' of every record taken so far that is a
\* mapping with a string 'text' whose trimmed value is non-empty; every other
\* record adds nothing, and the iteration goes on to the last record.
C34_OscarEmitsTrimmedText ==
    oscar.pos >= 0 =>
        LET taken == SubSeq(oscar.rows, 1, oscar.pos)
            good == SelectSeq(taken, HasText)
        IN  /\ oscar.pos <= Len(oscar.rows)
            /\ oscar.out = [i \in 1..Len(good) |-> Strip(good[i].text.s)]
            /\ \A i \in 1..Len(oscar.out) : oscar.out[i] # <<>>
            /\ oscar.pos < Len(oscar.rows) => ENABLED stream_oscar

\* a dataset of an untrimmed text, a number under "text" and a plain text,
\* consumed to its end: 'y' and 'x' were yielded
C34_Witness ==
    /\ oscar.rows = <<Row(PyStr(<<" ", "y", " ">>)), Row(PyInt(99)),
                      Row(PyStr(<<"x">>))>>
    /\ oscar.pos = 3
    /\ oscar.out = << <<"y">>, <<"x">> >>

\* the fields create_job stores and the run never names
CreatedFields == {"created_at", "source", "language"}

\* C35: every write of a run passes one mapping to hset and changes the
\* record by field merge: the fields of the mapping take its values, every
\* other field of the record stays as it was and none is removed; no mapping
\* of the run names created_at, source or language, so these stay what
\* create_job stored; and a 'failed' mapping names no progress, so the
\* progress last written stays.
C35_FieldMerge ==
    [][\A j \in JobIds :
          writes'[j] # writes[j] =>
              LET m == writes'[j][Len(writes'[j])]
              IN  /\ writes'[j] = Append(writes[j], m)
                  /\ DOMAIN redis'[j] = (DOMAIN redis[j]) \cup (DOMAIN m)
                  /\ \A f \in DOMAIN m : redis'[j][f] = m[f]
                  /\ \A f \in (DOMAIN redis[j]) \ (DOMAIN m) :
                        redis'[j][f] = redis[j][f]
                  /\ (DOMAIN m) \cap CreatedFields = {}
                  /\ \A f \in CreatedFields \cap DOMAIN redis[j] :
                        redis'[j][f] = redis[j][f]
                  /\ (Has(m, "status") /\ m.status = "failed") =>
                        /\ ~Has(m, "progress")
                        /\ Has(redis[j], "progress")
                        /\ redis'[j].progress = redis[j].progress
      ]_vars

\* a job submitted through create_job has failed: the record still holds what
\* create_job stored and the progress of the initial write
C35_Witness ==
    \E j \in JobIds :
        /\ Status(j) = "failed"
        /\ Has(redis[j], "error")
        /\ Has(redis[j], "created_at") /\ redis[j].created_at = "now"
        /\ redis[j].source = OSCAR /\ redis[j].language = KK
        /\ redis[j].progress = 0
        /\ Len(writes[j]) >= 2

\* C36: for a run entered through process_corpus: the client it opened is
\* closed at most once; it is open as long as process_corpus_impl has not
\* finished, so no write of the record comes after the close; once
\* process_corpus_impl has returned or raised, the close is the step that
\* follows, and after it the client has been closed exactly once.
C36_ClientClosedOnce ==
    [][\A j \in JobIds :
          /\ calls'[j].close <= 1
          /\ client'[j] = "closed" <=> calls'[j].close = 1
          /\ client'[j] = "closed" => pc'[j] \in {"returned", "raised"}
          /\ client[j] = "closed" =>
                /\ writes'[j] = writes[j]
                /\ redis'[j] = redis[j]
                /\ client'[j] = "closed"
          /\ (client'[j] = "open" /\ pc'[j] \in {"returned", "raised"}) =>
                (ENABLED Finally(j))'
      ]_vars

\* a run entered through process_corpus raised after its 'failed' write and
\* its client was closed
C36_Witness ==
    \E j \in JobIds :
        /\ pc[j] = "raised"
        /\ Status(j) = "failed"
        /\ client[j] = "closed"
        /\ calls[j].close = 1

\* C37: in every state of the record of a run: progress is 100 iff the status
\* is 'completed'; the message is 'done' iff the status is 'completed'; an
\* error field is there only when the status is 'failed'; and the message is
\* 'download_failed' or 'upload_failed' only when the status is 'failed'.
C37_RecordConsistent ==
    \A j \in JobIds :
        redis[j] # NoHash =>
            LET h == redis[j]
                completed == Has(h, "status") /\ h.status = "completed"
                failed == Has(h, "status") /\ h.status = "failed"
            IN  /\ (Has(h, "progress") /\ h.progress = 100) <=> completed
                /\ (Has(h, "message") /\ h.message = "done") <=> completed
                /\ Has(h, "error") => failed
                /\ (Has(h, "message")
                    /\ h.message \in {"download_failed", "upload_failed"})
                      => failed

\* the record of a run that failed at the upload
C37_Witness ==
    \E j \in JobIds :
        /\ Status(j) = "failed"
        /\ redis[j].message = "upload_failed"
        /\ redis[j].error = "missing_file_id"
        /\ redis[j].progress = 0
        /\ pc[j] = "raised"

\* C38: with two runs on the same (source, language) interleaved in any way,
\* a run whose ensure_corpus_file call has returned a path finds the file at
\* that path until it has opened it for reading: the other run's removal of
\* its empty file never takes away the file this run wrote or reuses.
C38_ReturnedPathStillExists ==
    \A j \in AllJobIds :
        pc[j] = "process" => corpus[CorpusPath(spec[j])].exists

====
